---- MODULE Spec2Model ----
(***************************************************************************)
(* A model of SciDB-Py: the Shim session protocol of scidbpy/db.py (DB,    *)
(* _shim, iquery, iquery_readlines, iquery_upload), the SciDB expression   *)
(* nodes of db.py, the AFL expression nodes of scidbpy/afl.py and the      *)
(* name disambiguation of scidbpy/schema_utils.py.                         *)
(***************************************************************************)
EXTENDS Integers, Sequences, FiniteSets, TLC

VARIABLES
    db,        \* the DB object: "absent" until __init__ has returned
    catalog,   \* the server's current operator list
    calls,     \* the running and finished DB operations, one record each
    log,       \* every request sent to the Shim gateway, in order
    nextId,    \* the next session id the gateway hands out
    nodes,     \* the SciDB expression nodes created so far
    access,    \* the outcome of the latest dynamic member access
    afl,       \* the AFLExpression nodes created so far
    aflLog,    \* every query the AFL interface executed, in order
    arrays,    \* the number of arrays interface.new_array() has created
    evals,     \* the outcome of every eval() call, in order
    built,     \* the outcome of the latest AFL operator construction
    dis,       \* the latest disambiguate() call: its input and its result
    codec,     \* the latest buffer decoded or rows uploaded, and the outcome
    axisCall   \* the latest change_axis_schema() call and its outcome

vars == <<db, catalog, calls, log, nextId, nodes, access,
          afl, aflLog, arrays, evals, built, dis, codec, axisCall>>

dbVars   == <<db, catalog, calls, log, nextId>>
nodeVars == <<nodes, access>>
aflVars  == <<afl, aflLog, arrays, evals, built>>
otherVars == <<nodeVars, aflVars, dis, codec, axisCall>>

----------------------------------------------------------------------------
(* Bounds of the model *)

MaxCalls == 1      \* DB operations started after the connection is up
MaxNodes == 1      \* SciDB expression nodes
MaxArgs == 1       \* operands of one SciDB node
MaxCreateArgs == 3 \* operands given to one create_array node
MaxAfl == 2        \* AFLExpression nodes
MaxEvals == 2      \* eval() calls
MaxGiven == 3      \* operands given to an AFL operator constructor
MaxOperands == 3   \* operands in one call of disambiguate
MaxBuf == 6        \* bytes in a fetched buffer
MaxThreads == 2    \* operations running at once on one connection
MaxDims == 2       \* dimensions of a data shape
MaxRows == 2       \* rows given to iquery_upload

----------------------------------------------------------------------------
(* Text: a string is a sequence of one-character strings *)

ToLower(ch) ==
    CASE ch = "H" -> "h"
      [] ch = "C" -> "c"
      [] ch = "T" -> "t"
      [] ch = "P" -> "p"
      [] ch = "S" -> "s"
      [] ch = "O" -> "o"
      [] ch = "R" -> "r"
      [] ch = "E" -> "e"
      [] OTHER -> ch

Lower(s) == [i \in 1..Len(s) |-> ToLower(s[i])]

StartsWith(s, p) == Len(s) >= Len(p) /\ SubSeq(s, 1, Len(p)) = p

(* The words of the protocol and of the queries, spelled out *)
T_https == <<"h", "t", "t", "p", "s">>
T_tsv == <<"t", "s", "v">>
T_show1 == <<"s", "h", "o", "w", "(", "'">>
T_show2 == <<"'", ",", " ", "'", "a", "f", "l", "'", ")">>
T_list_operators ==
    <<"p", "r", "o", "j", "e", "c", "t", "(", "l", "i", "s", "t", "(", "'",
      "o", "p", "e", "r", "a", "t", "o", "r", "s", "'", ")", ",", " ",
      "n", "a", "m", "e", ")">>
T_scan == <<"s", "c", "a", "n">>
T_store == <<"s", "t", "o", "r", "e">>
T_Store == <<"S", "t", "o", "r", "e">>
T_remove == <<"r", "e", "m", "o", "v", "e">>
T_create_array ==
    <<"c", "r", "e", "a", "t", "e", "_", "a", "r", "r", "a", "y">>
T_apply == <<"a", "p", "p", "l", "y">>
T_False == <<"F", "a", "l", "s", "e">>
T_array == <<"a", "r", "r", "a", "y">>
T_foo == <<"f", "o", "o">>
T_bar == <<"b", "a", "r">>

----------------------------------------------------------------------------
(* The connection: DB.__init__ and DB._shim *)

Urls ==
    { <<"h", "t", "t", "p", ":", "/", "/", "a">>,
      <<"h", "t", "t", "p", "s", ":", "/", "/", "a">>,
      <<"H", "T", "T", "P", "S", ":", "/", "/", "a">> }

\* A credential pair is <<user, password>>; <<>> is None (both are falsy).
\* db.arg_scidb_auth is the scidb_auth argument __init__ was called with.
Creds == { <<>>, <<T_foo, T_bar>> }

NoDB ==
    [state |-> "absent", scidb_url |-> <<>>, _scidb_auth |-> <<>>,
     _http_auth |-> <<>>, operators |-> <<>>, arg_scidb_auth |-> <<>>,
     scidb_auth |-> <<>>, http_auth |-> <<>>]

\* repr(Password_Placeholder())
T_PASSWORD_PROVIDED ==
    <<"P", "A", "S", "S", "W", "O", "R", "D", "_", "P", "R", "O", "V", "I",
      "D", "E", "D">>

PublicAuth_KeepsPassword(auth) == auth

\* The public scidb_auth / http_auth attribute: (user, Password_Placeholder())
PublicAuth(auth) ==
    IF auth = <<>> THEN <<>> ELSE <<auth[1], T_PASSWORD_PROVIDED>>

\* What the server lists as its operators; a library can be loaded later.
BaseCatalog == <<T_scan, T_apply, T_store, T_remove, T_create_array>>
ExtraOperator == <<"g", "e", "m", "m">>

NoKw == [id |-> 0, query |-> <<>>, save |-> <<>>, release |-> 0, data |-> <<>>]

ShimAuth_EveryEndpoint(d, endpoint) == d._scidb_auth

\* The credentials _shim adds to the keyword arguments of a request.
ShimAuth(d, endpoint) ==
    IF d._scidb_auth # <<>> /\ endpoint \in {"cancel", "execute_query"}
    THEN d._scidb_auth
    ELSE <<>>

\* The request DB._shim sends for `endpoint` with keyword arguments `kw`.
Shim(d, endpoint, kw) ==
    [endpoint |-> endpoint,
     method |-> IF endpoint = "upload" THEN "POST" ELSE "GET",
     id |-> kw.id,
     query |-> kw.query,
     save |-> kw.save,
     release |-> kw.release,
     data |-> kw.data,
     scidb_auth |-> ShimAuth(d, endpoint),
     auth |-> d._http_auth]

ConfigError_HttpPrefix(url, scidb_auth) ==
    scidb_auth # <<>> /\ ~StartsWith(Lower(url), <<"h", "t", "t", "p">>)

\* The check DB.__init__ makes on its arguments before anything is sent.
ConfigError(url, scidb_auth) ==
    scidb_auth # <<>> /\ ~StartsWith(Lower(url), T_https)

----------------------------------------------------------------------------
(* Schemas, as far as DB.iquery uses them *)

Digits == <<"0", "1", "2", "3", "4", "5", "6", "7", "8", "9">>

\* str(k) for a natural number k
RECURSIVE IntToStr(_)
IntToStr(k) ==
    IF k < 10 THEN <<Digits[k + 1]>>
    ELSE IntToStr(k \div 10) \o <<Digits[(k % 10) + 1]>>

SeqToSet(q) == {q[i] : i \in 1..Len(q)}

\* A schema is its attribute names and its dimension names, in order.
NoSchema == [atts |-> <<>>, dims |-> <<>>]
Schemas ==
    { [atts |-> << <<"x">> >>, dims |-> << <<"i">> >>],
      [atts |-> << <<"x">>, <<"i">> >>, dims |-> << <<"i">> >>] }

\* The schemas the server answers show(...) with
ShownSchemas == {sch \in Schemas : Len(sch.atts) = 2}

\* The lowest name_k, k >= 1, that is not among `taken`.
RECURSIVE DimSuffix(_, _, _)
DimSuffix(name, taken, k) ==
    LET cand == name \o <<"_">> \o IntToStr(k) IN
    IF cand \in taken THEN DimSuffix(name, taken, k + 1) ELSE cand

\* Schema.make_dims_unique: the dimensions, each one that collides with an
\* attribute or an earlier dimension renamed.
RECURSIVE UniqueDims(_, _, _)
UniqueDims(dims, taken, acc) ==
    IF dims = <<>> THEN acc
    ELSE LET d == Head(dims)
             n == IF d \in taken THEN DimSuffix(d, taken, 1) ELSE d
         IN UniqueDims(Tail(dims), taken \cup {n}, Append(acc, n))

MakeDimsUnique(sch) ==
    [sch EXCEPT !.dims = UniqueDims(sch.dims, SeqToSet(sch.atts), <<>>)]

\* Schema.make_dims_atts: the dimensions become the leading attributes.
MakeDimsAtts(sch) == [sch EXCEPT !.atts = sch.dims \o sch.atts]

RECURSIVE JoinAll(_, _)
JoinAll(parts, sep) ==
    IF parts = <<>> THEN <<>>
    ELSE IF Len(parts) = 1 THEN parts[1]
    ELSE parts[1] \o sep \o JoinAll(Tail(parts), sep)

T_int64 == <<"i", "n", "t", "6", "4">>
CommaSp == <<",", " ">>

\* '{:h}'.format(sch): the schema's text
SchemaText(sch) ==
    <<"<">> \o JoinAll([i \in 1..Len(sch.atts) |->
                           sch.atts[i] \o <<":">> \o T_int64], <<",">>)
    \o <<">", "[">> \o JoinAll(sch.dims, <<";", " ">>) \o <<"]">>

\* sch.atts_fmt_scidb: the binary save format of the attributes
AttsFmt(sch) ==
    <<"(">> \o JoinAll([i \in 1..Len(sch.atts) |-> T_int64], <<",">>)
    \o <<")">>

T_cast == <<"c", "a", "s", "t", "(">>
T_project_apply ==
    <<"p", "r", "o", "j", "e", "c", "t", "(", "a", "p", "p", "l", "y", "(">>

DataQuery_AttsFirst(query, sch, atts_only) ==
    IF atts_only THEN query
    ELSE LET u == MakeDimsUnique(sch)
             q == IF u # sch
                  THEN T_cast \o query \o CommaSp \o SchemaText(u) \o <<")">>
                  ELSE query
         IN T_project_apply \o q \o CommaSp
            \o JoinAll([i \in 1..Len(u.dims) |->
                           u.dims[i] \o CommaSp \o u.dims[i]], CommaSp)
            \o <<")">> \o CommaSp
            \o JoinAll(u.atts \o u.dims, CommaSp) \o <<")">>

\* The query DB.iquery runs to download the data, from the caller's query.
DataQuery(query, sch, atts_only) ==
    IF atts_only THEN query
    ELSE LET u == MakeDimsUnique(sch)
             q == IF u # sch
                  THEN T_cast \o query \o CommaSp \o SchemaText(u) \o <<")">>
                  ELSE query
         IN T_project_apply \o q \o CommaSp
            \o JoinAll([i \in 1..Len(u.dims) |->
                           u.dims[i] \o CommaSp \o u.dims[i]], CommaSp)
            \o <<")">> \o CommaSp
            \o JoinAll(u.dims \o u.atts, CommaSp) \o <<")">>

\* The schema DB.iquery decodes the downloaded data with.
DataSchema(sch, atts_only) ==
    IF atts_only THEN sch ELSE MakeDimsAtts(MakeDimsUnique(sch))

\* DB._show_query.format(query.replace("'", "\\'"))
ShowQuery(query) ==
    T_show1
    \o JoinAll([i \in 1..Len(query) |->
                   IF query[i] = "'" THEN <<"\\", "'">> ELSE <<query[i]>>],
               <<>>)
    \o T_show2

Format_Unsubstituted(template, arg) == template

\* template.format(arg): the first {} of the template replaced by arg
Format(template, arg) ==
    LET at == {i \in 1..(Len(template) - 1) :
                  template[i] = "{" /\ template[i + 1] = "}"}
    IN IF at = {} THEN template
       ELSE LET i == CHOOSE j \in at : \A k \in at : j <= k
            IN SubSeq(template, 1, i - 1) \o arg
               \o SubSeq(template, i + 2, Len(template))

----------------------------------------------------------------------------
(* The operations of a connection, one record per call *)

Queries == { T_scan \o <<"(">> \o T_foo \o <<")">> }

\* The values given to iquery_upload: bytes, or a NumPy array with no_v
\* named fields and `cells` cells.
Bytes == [ndarray |-> FALSE, no_v |-> 0, cells |-> 1]
UploadValues ==
    {Bytes} \cup {[ndarray |-> TRUE, no_v |-> v, cells |-> 1] : v \in 0..2}

T_load ==
    <<"l", "o", "a", "d", "(", "f", "o", "o", ",", " ", "'", "{", "}", "'",
      ")">>

NoCall ==
    [kind |-> "none", pc |-> "done", status |-> "idle", id |-> 0,
     query |-> <<>>, fetch |-> FALSE, atts_only |-> FALSE,
     schema |-> NoSchema, sch |-> NoSchema, values |-> Bytes,
     fn |-> <<>>, owner |-> 0, via |-> "user", result |-> <<>>]

CallIds == 0..(IF MaxThreads > MaxCalls THEN MaxThreads ELSE MaxCalls)

\* The first call slot not yet used; slot 0 is the call DB.__init__ makes.
FreeCalls == {c \in 1..MaxCalls : calls[c].kind = "none"}

\* The caller is synchronous: it starts an operation when none is running.
Idle == \A c \in CallIds : calls[c].status # "running"
NextCall == CHOOSE c \in FreeCalls : \A e \in FreeCalls : c <= e

NewCall(kind, query) ==
    [NoCall EXCEPT !.kind = kind, !.pc = "new_session",
                   !.status = "running", !.query = query]

\* One request of call c goes out and is answered: ok, or an HTTP error,
\* which req.raise_for_status() turns into an exception.
Send(c, req, ok) == log' = Append(log, [call |-> c, ok |-> ok, req |-> req])

Raised(r) == [r EXCEPT !.status = "raised", !.pc = "done"]
Returned(r, result) ==
    [r EXCEPT !.status = "returned", !.pc = "done", !.result = result]

At(c, kind, pc) ==
    /\ calls[c].kind = kind
    /\ calls[c].status = "running"
    /\ calls[c].pc = pc

\* An exception in the call DB.__init__ makes leaves no DB object behind.
InitFailed(c, ok) ==
    db' = IF c = 0 /\ ~ok THEN [db EXCEPT !.state = "failed"] ELSE db

AfterNewSession_IgnoresSchema(r) ==
    CASE r.kind = "readlines" -> "execute"
      [] r.kind = "upload" -> "upload"
      [] r.kind = "iquery" /\ ~r.fetch -> "execute_release"
      [] OTHER -> "show"

AfterNewSession_AlwaysFetch(r) ==
    CASE r.kind = "readlines" -> "execute"
      [] r.kind = "upload" -> "upload"
      [] r.kind = "iquery" /\ r.schema # NoSchema -> "execute"
      [] OTHER -> "show"

\* Where each operation goes once it has its session id
AfterNewSession(r) ==
    CASE r.kind = "readlines" -> "execute"
      [] r.kind = "upload" -> "upload"
      [] r.kind = "iquery" /\ ~r.fetch -> "execute_release"
      [] r.kind = "iquery" /\ r.fetch /\ r.schema # NoSchema -> "execute"
      [] OTHER -> "show"

NewSession_SharedId(c) ==
    /\ c \in CallIds
    /\ calls[c].status = "running"
    /\ calls[c].pc = "new_session"
    /\ \E ok \in BOOLEAN :
        /\ Send(c, Shim(db, "new_session", NoKw), ok)
        /\ IF ok
           THEN /\ calls' = [e \in CallIds |->
                      IF e = c
                      THEN [calls[e] EXCEPT !.id = nextId,
                                            !.sch = calls[c].schema,
                                            !.pc = AfterNewSession(calls[c])]
                      ELSE IF calls[e].status = "running" /\ calls[e].id # 0
                      THEN [calls[e] EXCEPT !.id = nextId]
                      ELSE calls[e]]
                /\ nextId' = nextId + 1
           ELSE /\ calls' = [calls EXCEPT ![c] = Raised(@)]
                /\ UNCHANGED nextId
        /\ InitFailed(c, ok)
    /\ UNCHANGED <<catalog, otherVars>>

\* id = self._shim(Shim.new_session).text, the first line of each operation;
\* id is a local variable of the operation
NewSession(c) ==
    /\ c \in CallIds
    /\ calls[c].status = "running"
    /\ calls[c].pc = "new_session"
    /\ \E ok \in BOOLEAN :
        /\ Send(c, Shim(db, "new_session", NoKw), ok)
        /\ IF ok
           THEN /\ calls' = [calls EXCEPT
                      ![c].id = nextId,
                      ![c].sch = calls[c].schema,
                      ![c].pc = AfterNewSession(calls[c])]
                /\ nextId' = nextId + 1
           ELSE /\ calls' = [calls EXCEPT ![c] = Raised(@)]
                /\ UNCHANGED nextId
        /\ InitFailed(c, ok)
    /\ UNCHANGED <<catalog, otherVars>>

\* What the server answers to a read_bytes after a saved query.
Lines(query) == IF query = T_list_operators THEN catalog ELSE <<T_foo>>

\* DB.iquery, fetch=True and no schema given: execute show(...), save=tsv
IqueryShow(c) ==
    /\ At(c, "iquery", "show")
    /\ \E ok \in BOOLEAN :
        /\ Send(c, Shim(db, "execute_query",
                        [NoKw EXCEPT !.id = calls[c].id,
                                     !.query = ShowQuery(calls[c].query),
                                     !.save = T_tsv]), ok)
        /\ calls' = [calls EXCEPT ![c] =
               IF ok THEN [@ EXCEPT !.pc = "show_read"] ELSE Raised(@)]
    /\ UNCHANGED <<db, catalog, nextId, otherVars>>

\* ... and read the schema text back: sch = Schema.fromstring(...)
IqueryShowRead(c) ==
    /\ At(c, "iquery", "show_read")
    /\ \E ok \in BOOLEAN, sch \in ShownSchemas :
        /\ Send(c, Shim(db, "read_bytes", [NoKw EXCEPT !.id = calls[c].id]), ok)
        /\ calls' = [calls EXCEPT ![c] =
               IF ok THEN [@ EXCEPT !.pc = "execute", !.sch = sch]
               ELSE Raised(@)]
    /\ UNCHANGED <<db, catalog, nextId, otherVars>>

SchIsCallers_NoCopy(r) == r.schema # NoSchema

\* Whether sch, which make_dims_unique and make_dims_atts change in place,
\* is the object the caller passed: never, it is copy.deepcopy(schema),
\* or built by Schema.fromstring
SchIsCallers(r) == FALSE

\* The caller's object after sch has been changed in place to `sch`
CallerSchema(r, sch) == IF SchIsCallers(r) THEN sch ELSE r.schema

\* DB.iquery, fetch=True: execute the data query, save=sch.atts_fmt_scidb
IqueryExecute(c) ==
    /\ At(c, "iquery", "execute")
    /\ \E ok \in BOOLEAN :
        LET r == calls[c]
            sch == DataSchema(r.sch, r.atts_only)
        IN /\ Send(c, Shim(db, "execute_query",
                           [NoKw EXCEPT
                               !.id = r.id,
                               !.query = DataQuery(r.query, r.sch, r.atts_only),
                               !.save = AttsFmt(sch)]), ok)
           /\ calls' = [calls EXCEPT ![c] =
                  IF ok THEN [@ EXCEPT !.pc = "read", !.sch = sch,
                                       !.schema = CallerSchema(r, sch)]
                  ELSE Raised([@ EXCEPT !.sch = sch,
                                        !.schema = CallerSchema(r, sch)])]
    /\ UNCHANGED <<db, catalog, nextId, otherVars>>

\* buf = self._shim(Shim.read_bytes, id=id, n=0).content
IqueryRead(c) ==
    /\ At(c, "iquery", "read")
    /\ \E ok \in BOOLEAN :
        /\ Send(c, Shim(db, "read_bytes", [NoKw EXCEPT !.id = calls[c].id]), ok)
        /\ calls' = [calls EXCEPT ![c] =
               IF ok THEN [@ EXCEPT !.pc = "release"] ELSE Raised(@)]
    /\ UNCHANGED <<db, catalog, nextId, otherVars>>

\* self._shim(Shim.release_session, id=id), then the array is built
IqueryRelease(c) ==
    /\ At(c, "iquery", "release")
    /\ \E ok \in BOOLEAN :
        /\ Send(c, Shim(db, "release_session",
                        [NoKw EXCEPT !.id = calls[c].id]), ok)
        /\ calls' = [calls EXCEPT ![c] =
               IF ok THEN Returned(@, <<T_array>>) ELSE Raised(@)]
    /\ UNCHANGED <<db, catalog, nextId, otherVars>>

\* DB.iquery, fetch=False: execute with release=1
IqueryExecuteRelease(c) ==
    /\ At(c, "iquery", "execute_release")
    /\ \E ok \in BOOLEAN :
        /\ Send(c, Shim(db, "execute_query",
                        [NoKw EXCEPT !.id = calls[c].id,
                                     !.query = calls[c].query,
                                     !.release = 1]), ok)
        /\ calls' = [calls EXCEPT ![c] =
               IF ok THEN Returned(@, <<>>) ELSE Raised(@)]
    /\ UNCHANGED <<db, catalog, nextId, otherVars>>

\* DB.iquery_readlines: execute the query, save=tsv
ReadlinesExecute(c) ==
    /\ At(c, "readlines", "execute")
    /\ \E ok \in BOOLEAN :
        /\ Send(c, Shim(db, "execute_query",
                        [NoKw EXCEPT !.id = calls[c].id,
                                     !.query = calls[c].query,
                                     !.save = T_tsv]), ok)
        /\ calls' = [calls EXCEPT ![c] =
               IF ok THEN [@ EXCEPT !.pc = "read"] ELSE Raised(@)]
        /\ InitFailed(c, ok)
    /\ UNCHANGED <<catalog, nextId, otherVars>>

\* ret = [... for line in self._shim(Shim.read_bytes, ...).text.splitlines()]
ReadlinesRead(c) ==
    /\ At(c, "readlines", "read")
    /\ \E ok \in BOOLEAN :
        /\ Send(c, Shim(db, "read_bytes", [NoKw EXCEPT !.id = calls[c].id]), ok)
        /\ calls' = [calls EXCEPT ![c] =
               IF ok THEN [@ EXCEPT !.pc = "release",
                                    !.result = Lines(calls[c].query)]
               ELSE Raised(@)]
        /\ InitFailed(c, ok)
    /\ UNCHANGED <<catalog, nextId, otherVars>>

\* self._shim(Shim.release_session, id=id); return ret.  The call made by
\* DB.__init__ returns into it: self.operators = ret, and the DB is built.
ReadlinesRelease(c) ==
    /\ At(c, "readlines", "release")
    /\ \E ok \in BOOLEAN :
        /\ Send(c, Shim(db, "release_session",
                        [NoKw EXCEPT !.id = calls[c].id]), ok)
        /\ calls' = [calls EXCEPT ![c] =
               IF ok THEN Returned(@, @.result) ELSE Raised(@)]
        /\ db' = IF c # 0 THEN db
                 ELSE IF ok THEN [db EXCEPT !.state = "ready",
                                            !.operators = calls[c].result]
                 ELSE [db EXCEPT !.state = "failed"]
    /\ UNCHANGED <<catalog, nextId, otherVars>>

\* iquery_upload's test of its input: TRUE when it raises an exception
UploadRejects_CountOnly(values, schema) ==
    /\ values.ndarray
    /\ schema # NoSchema
    /\ values.no_v # Len(schema.atts)

\* DB.iquery_upload: TRUE when a NumPy array is refused
UploadRejects(values, schema) ==
    /\ values.ndarray
    /\ \/ schema = NoSchema
       \/ ~(\/ values.no_v = 0 /\ Len(schema.atts) = 1
            \/ values.no_v = Len(schema.atts))

\* The bytes iquery_upload posts: one cell encoding per attribute and cell
UploadData(values, schema) ==
    IF values.ndarray
    THEN [i \in 1..(values.cells * Len(schema.atts)) |-> "cell"]
    ELSE <<"bytes">>

\* DB.iquery_upload: check the values, then POST them
UploadUpload(c) ==
    /\ At(c, "upload", "upload")
    /\ LET r == calls[c] IN
       IF UploadRejects(r.values, r.schema)
       THEN /\ calls' = [calls EXCEPT ![c] = Raised(@)]
            /\ UNCHANGED log
       ELSE \E ok \in BOOLEAN :
            /\ Send(c, Shim(db, "upload",
                            [NoKw EXCEPT
                                !.id = r.id,
                                !.data = UploadData(r.values, r.schema)]), ok)
            /\ calls' = [calls EXCEPT ![c] =
                   IF ok THEN [@ EXCEPT !.pc = "execute_release",
                                        !.fn = <<"/", "u">> \o IntToStr(r.id)]
                   ELSE Raised(@)]
    /\ UNCHANGED <<db, catalog, nextId, otherVars>>

\* ... and execute query.format(fn) with release=1
UploadExecute(c) ==
    /\ At(c, "upload", "execute_release")
    /\ \E ok \in BOOLEAN :
        /\ Send(c, Shim(db, "execute_query",
                        [NoKw EXCEPT
                            !.id = calls[c].id,
                            !.query = Format(calls[c].query, calls[c].fn),
                            !.release = 1]), ok)
        /\ calls' = [calls EXCEPT ![c] =
               IF ok THEN Returned(@, <<>>) ELSE Raised(@)]
    /\ UNCHANGED <<db, catalog, nextId, otherVars>>

\* DB.__init__ up to its call of iquery_readlines, which runs as call 0
Connect(url, scidb_auth, http_auth) ==
    /\ db.state = "absent"
    /\ IF ConfigError(url, scidb_auth)
       THEN /\ db' = [db EXCEPT !.state = "config_error", !.scidb_url = url,
                                !._http_auth = http_auth,
                                !.http_auth = PublicAuth(http_auth),
                                !.arg_scidb_auth = scidb_auth]
            /\ UNCHANGED calls
       ELSE /\ db' = [db EXCEPT !.state = "init", !.scidb_url = url,
                                !._http_auth = http_auth,
                                !.http_auth = PublicAuth(http_auth),
                                !._scidb_auth = scidb_auth,
                                !.scidb_auth = PublicAuth(scidb_auth),
                                !.arg_scidb_auth = scidb_auth]
            /\ calls' = [calls EXCEPT
                            ![0] = NewCall("readlines", T_list_operators)]
    /\ UNCHANGED <<catalog, log, nextId, otherVars>>

\* A caller invokes db.iquery(query, fetch, atts_only, schema=schema)
BeginIquery(c, query, fetch, atts_only, schema) ==
    /\ db.state = "ready"
    /\ calls' = [calls EXCEPT ![c] =
           [NewCall("iquery", query) EXCEPT !.fetch = fetch,
                                            !.atts_only = atts_only,
                                            !.schema = schema]]
    /\ UNCHANGED <<db, catalog, log, nextId, otherVars>>

StartIquery(query, fetch, atts_only, schema) ==
    /\ Idle
    /\ FreeCalls # {}
    /\ BeginIquery(NextCall, query, fetch, atts_only, schema)

\* A caller invokes db.iquery_readlines(query)
BeginReadlines(c, query) ==
    /\ db.state = "ready"
    /\ calls' = [calls EXCEPT ![c] = NewCall("readlines", query)]
    /\ UNCHANGED <<db, catalog, log, nextId, otherVars>>

StartReadlines(query) ==
    /\ Idle
    /\ FreeCalls # {}
    /\ BeginReadlines(NextCall, query)

\* A caller invokes db.iquery_upload(query, values, schema)
BeginUpload(c, query, values, schema) ==
    /\ db.state = "ready"
    /\ calls' = [calls EXCEPT ![c] =
           [NewCall("upload", query) EXCEPT !.values = values,
                                            !.schema = schema]]
    /\ UNCHANGED <<db, catalog, log, nextId, otherVars>>

StartUpload(query, values, schema) ==
    /\ Idle
    /\ FreeCalls # {}
    /\ BeginUpload(NextCall, query, values, schema)

\* A direct db._shim(Shim.cancel, id=id): no operation of DB makes one
ShimCancel(id) ==
    /\ db.state = "ready"
    /\ Idle
    /\ \A i \in 1..Len(log) : log[i].req.endpoint # "cancel"
    /\ \E ok \in BOOLEAN :
        Send(-1, Shim(db, "cancel", [NoKw EXCEPT !.id = id]), ok)
    /\ UNCHANGED <<db, catalog, calls, nextId, otherVars>>

\* The server loads a library: its operator list grows
LoadLibrary ==
    /\ ExtraOperator \notin SeqToSet(catalog)
    /\ catalog' = Append(catalog, ExtraOperator)
    /\ UNCHANGED <<db, calls, log, nextId, otherVars>>

\* One request of a running operation
IqueryStep(c) ==
    \/ IqueryShow(c)
    \/ IqueryShowRead(c)
    \/ IqueryExecute(c)
    \/ IqueryRead(c)
    \/ IqueryRelease(c)
    \/ IqueryExecuteRelease(c)

ReadlinesStep(c) ==
    \/ ReadlinesExecute(c)
    \/ ReadlinesRead(c)
    \/ ReadlinesRelease(c)

UploadStep(c) ==
    \/ UploadUpload(c)
    \/ UploadExecute(c)

ShimStep(c) ==
    \/ NewSession(c)
    \/ IqueryStep(c)
    \/ ReadlinesStep(c)
    \/ UploadStep(c)

----------------------------------------------------------------------------
(* The session protocol: a connection and the operations called on it *)

NoAccess == [on |-> "none", name |-> <<>>, found |-> FALSE, node |-> 0]
NoDis == [input |-> <<>>, result |-> <<>>]
NoBuilt == [sig |-> <<>>, ngiven |-> 0, raised |-> FALSE, node |-> 0]
NoShape ==
    [dim_names |-> <<>>, shape |-> <<>>, chunk_size |-> <<>>,
     chunk_overlap |-> <<>>, dtype |-> <<>>]
NoArg == [given |-> FALSE, val |-> 0]
NoName == [given |-> FALSE, val |-> <<>>]
NoAxisCall ==
    [op |-> "none", template |-> NoShape, axis |-> 0, start |-> NoArg,
     stop |-> NoArg, chunk |-> NoArg, overlap |-> NoArg, name |-> NoName,
     raised |-> "none", shape |-> NoShape, after |-> NoShape]
NoCodec ==
    [op |-> "none", atts |-> <<>>, no_v |-> 0, values |-> <<>>, buf |-> <<>>,
     raised |-> FALSE, rows |-> <<>>, off |-> 0, buf_meta |-> <<>>]

Init ==
    /\ db = NoDB
    /\ catalog = BaseCatalog
    /\ calls = [c \in CallIds |-> NoCall]
    /\ log = <<>>
    /\ nextId = 1
    /\ nodes = <<>>
    /\ access = NoAccess
    /\ afl = <<>>
    /\ aflLog = <<>>
    /\ arrays = 0
    /\ evals = <<>>
    /\ built = NoBuilt
    /\ dis = NoDis
    /\ codec = NoCodec
    /\ axisCall = NoAxisCall

Next ==
    \/ \E url \in Urls, sa \in Creds, ha \in Creds : Connect(url, sa, ha)
    \/ \E q \in Queries, f \in BOOLEAN, a \in BOOLEAN,
          sch \in Schemas \cup {NoSchema} : StartIquery(q, f, a, sch)
    \/ \E q \in Queries : StartReadlines(q)
    \/ \E v \in UploadValues, sch \in Schemas \cup {NoSchema} :
          StartUpload(T_load, v, sch)
    \/ \E c \in CallIds : ShimStep(c)
    \/ \E id \in 1..MaxCalls : ShimCancel(id)

Spec == Init /\ [][Next]_vars

----------------------------------------------------------------------------
(* Claims about the session protocol *)

Finished(c) == calls[c].status \in {"returned", "raised"}

\* The requests call c has sent on the session it opened
OnSession(c, endpoints) ==
    {i \in 1..Len(log) :
        /\ log[i].call = c
        /\ log[i].req.id = calls[c].id
        /\ log[i].req.endpoint \in endpoints}

\* The requests of call c that release its session
Releases(c) ==
    {i \in OnSession(c, {"release_session", "execute_query"}) :
        \/ log[i].req.endpoint = "release_session"
        \/ log[i].req.release = 1}

\* C1: every operation that has opened a session has, when it returns or
\* raises, requested the release of that session exactly once.
C1_ReleasedOnEveryExit ==
    \A c \in CallIds :
        Finished(c) /\ calls[c].id # 0 => Cardinality(Releases(c)) = 1

\* C2 as stated: a call of DB.iquery issues at most one execute_query and
\* at most one read_bytes on its session.
C2_OneCyclePerSession ==
    \A c \in CallIds :
        calls[c].kind = "iquery" =>
            /\ Cardinality(OnSession(c, {"execute_query"})) <= 1
            /\ Cardinality(OnSession(c, {"read_bytes"})) <= 1

\* C2 amended: a call of DB.iquery issues at most two execute_query and at
\* most two read_bytes on its session, never more reads than executes; at
\* most one of each when a schema is given, and with fetch=False one
\* execute_query at most and no read_bytes.
C2_AtMostTwoCycles ==
    \A c \in CallIds :
        calls[c].kind = "iquery" =>
            LET ex == Cardinality(OnSession(c, {"execute_query"}))
                rd == Cardinality(OnSession(c, {"read_bytes"}))
            IN /\ ex <= 2 /\ rd <= ex
               /\ calls[c].schema # NoSchema => ex <= 1
               /\ ~calls[c].fetch => ex <= 1 /\ rd = 0

C2_Witness ==
    \E c \in CallIds :
        /\ calls[c].kind = "iquery" /\ calls[c].status = "returned"
        /\ Cardinality(OnSession(c, {"execute_query"})) = 2
        /\ Cardinality(OnSession(c, {"read_bytes"})) = 2

NotHttps(url) ==
    \/ Len(url) < 5
    \/ \E i \in 1..5 : ToLower(url[i]) # T_https[i]

\* C6: a DB constructed with scidb_auth and a URL that is not https ends in
\* the configuration error, and nothing has been sent to the gateway.
C6_ConfigErrorBeforeAnyRequest ==
    db.state # "absent" /\ db.arg_scidb_auth # <<>> /\ NotHttps(db.scidb_url)
        => /\ db.state = "config_error"
           /\ log = <<>>
           /\ \A c \in CallIds : calls[c] = NoCall

C6_Witness ==
    db.state = "config_error" /\ db.arg_scidb_auth # <<>> /\ log = <<>>

\* C7: user and password go with a request exactly when the connection
\* has them and the endpoint is execute_query or cancel; the transport
\* credentials go with every request, the POST of upload included.
C7_CredentialChannels ==
    \A i \in 1..Len(log) :
        LET req == log[i].req IN
        /\ req.scidb_auth # <<>> <=>
               /\ db._scidb_auth # <<>>
               /\ req.endpoint \in {"execute_query", "cancel"}
        /\ req.scidb_auth # <<>> => req.scidb_auth = db._scidb_auth
        /\ req.endpoint \in {"new_session", "read_bytes", "release_session",
                             "upload"} => req.scidb_auth = <<>>
        /\ req.auth = db._http_auth
        /\ req.endpoint = "upload" <=> req.method = "POST"

C7_Witness ==
    /\ db._scidb_auth # <<>>
    /\ \E i, j, k \in 1..Len(log) :
        /\ log[i].req.endpoint = "upload" /\ log[i].req.auth # <<>>
        /\ log[j].req.endpoint = "execute_query"
        /\ log[j].req.scidb_auth # <<>>
        /\ log[k].req.endpoint = "cancel" /\ log[k].req.scidb_auth # <<>>

----------------------------------------------------------------------------
(* The facade: DB.__getattr__, Arrays.__getattr__ and the SciDB nodes *)

\* An operand of a node: a literal (a string, an Array, False: what
\* '{}'.format gives for it) or, when node # 0, another SciDB node.
Lit(text) == [lit |-> text, node |-> 0]
Ref(n) == [lit |-> <<>>, node |-> n]

HungryOperators == {T_create_array, T_remove, T_store}

IsLazy_StoreForgotten(operator) ==
    Lower(operator) \notin {T_create_array, T_remove}

\* self.is_lazy, as SciDB.__init__ computes it
IsLazy(operator) == Lower(operator) \notin HungryOperators

\* The latest call made on a node: what it was, what it returned, the DB
\* operation it started and, for __call__, the operands after extend()
NoLast == [op |-> "none", ret |-> "none", call |-> 0, ext |-> <<>>]

\* SciDB.__init__(db, operator, *args)
SciDBInit(operator, args) ==
    [operator |-> operator, args |-> args, is_lazy |-> IsLazy(operator),
     last |-> NoLast]

\* SciDB.__str__
RECURSIVE StrNode(_, _)
StrNode(ns, n) ==
    ns[n].operator \o <<"(">>
    \o JoinAll([i \in 1..Len(ns[n].args) |->
                   IF ns[n].args[i].node = 0 THEN ns[n].args[i].lit
                   ELSE StrNode(ns, ns[n].args[i].node)], CommaSp)
    \o <<")">>

\* The names a caller asks the facade for
Names == {T_scan, T_store, T_remove, T_create_array, ExtraOperator, T_foo}

Resolve_Live(name) == name \in SeqToSet(catalog)

\* name in self.operators
Resolve(name) == name \in SeqToSet(db.operators)

\* db.<name>: DB.__getattr__
DBGetattr(name) ==
    /\ db.state = "ready"
    /\ IF Resolve(name)
       THEN /\ Len(nodes) < MaxNodes
            /\ nodes' = Append(nodes, SciDBInit(name, <<>>))
            /\ access' = [on |-> "db", name |-> name, found |-> TRUE,
                          node |-> Len(nodes) + 1]
       ELSE /\ access' = [on |-> "db", name |-> name, found |-> FALSE,
                          node |-> 0]
            /\ UNCHANGED nodes
    /\ UNCHANGED <<dbVars, aflVars, dis, codec, axisCall>>

\* node.<name>: SciDB.__getattr__
NodeGetattr(n, name) ==
    /\ n \in 1..Len(nodes)
    /\ IF Resolve(name)
       THEN /\ Len(nodes) < MaxNodes
            /\ nodes' = Append(nodes, SciDBInit(name, <<Ref(n)>>))
            /\ access' = [on |-> "node", name |-> name, found |-> TRUE,
                          node |-> Len(nodes) + 1]
       ELSE /\ access' = [on |-> "node", name |-> name, found |-> FALSE,
                          node |-> 0]
            /\ UNCHANGED nodes
    /\ UNCHANGED <<dbVars, aflVars, dis, codec, axisCall>>

\* db.arrays.<name>: Arrays.__getattr__ returns Array(self.db, name)
ArraysGetattr(name) ==
    /\ db.state = "ready"
    /\ access' = [on |-> "arrays", name |-> name, found |-> TRUE, node |-> 0]
    /\ UNCHANGED <<dbVars, nodes, aflVars, dis, codec, axisCall>>

\* SciDB(db, operator) called directly, with any operator name
NodeNew(operator) ==
    /\ db.state = "ready"
    /\ Len(nodes) < MaxNodes
    /\ nodes' = Append(nodes, SciDBInit(operator, <<>>))
    /\ UNCHANGED <<dbVars, access, aflVars, dis, codec, axisCall>>

CallArgs_AlwaysAppends(node, args) ==
    IF StartsWith(Lower(node.operator), T_create_array)
    THEN Append(node.args \o args, Lit(T_False))
    ELSE node.args \o args

\* The operands of a node after __call__(*args)
CallArgs(node, args) ==
    LET ext == node.args \o args IN
    IF StartsWith(Lower(node.operator), T_create_array) /\ Len(ext) < 3
    THEN Append(ext, Lit(T_False))
    ELSE ext

\* node(*args): SciDB.__call__
NodeCall(n, args) ==
    /\ n \in 1..Len(nodes)
    /\ Idle
    /\ \A i \in 1..Len(args) : args[i].node < n
    /\ LET ns == [nodes EXCEPT ![n].args = CallArgs(nodes[n], args)] IN
       IF nodes[n].is_lazy
       THEN /\ nodes' = [ns EXCEPT ![n].last =
                            [op |-> "call", ret |-> "self", call |-> 0,
                             ext |-> nodes[n].args \o args]]
            /\ UNCHANGED calls
       ELSE /\ FreeCalls # {}
            /\ nodes' = [ns EXCEPT ![n].last =
                            [op |-> "call", ret |-> "iquery",
                             call |-> NextCall,
                             ext |-> nodes[n].args \o args]]
            /\ calls' = [calls EXCEPT ![NextCall] =
                   [NewCall("iquery", StrNode(ns, n)) EXCEPT
                       !.owner = n, !.via = "call"]]
    /\ UNCHANGED <<db, catalog, log, nextId, access, aflVars, dis, codec, axisCall>>

\* node.fetch() and node[key], which is self.fetch()[key]
NodeFetch(n, via) ==
    /\ n \in 1..Len(nodes)
    /\ Idle
    /\ IF nodes[n].is_lazy
       THEN /\ FreeCalls # {}
            /\ nodes' = [nodes EXCEPT ![n].last =
                            [op |-> via, ret |-> "iquery", call |-> NextCall,
                             ext |-> <<>>]]
            /\ calls' = [calls EXCEPT ![NextCall] =
                   [NewCall("iquery", StrNode(nodes, n)) EXCEPT
                       !.fetch = TRUE, !.owner = n, !.via = via]]
       ELSE /\ nodes' = [nodes EXCEPT ![n].last =
                            [op |-> via,
                             ret |-> IF via = "getitem" THEN "TypeError"
                                     ELSE "None",
                             call |-> 0, ext |-> <<>>]]
            /\ UNCHANGED calls
    /\ UNCHANGED <<db, catalog, log, nextId, access, aflVars, dis, codec, axisCall>>

\* Node n exists and holds at most max operands once args are added
Fits(n, args, max) ==
    n \in 1..Len(nodes) /\ Len(nodes[n].args) + Len(args) <= max

ArgLists(n) ==
    {<<>>, <<Lit(T_foo)>>, <<Lit(T_foo), Lit(T_bar)>>}
    \cup {<<Ref(m)>> : m \in 1..(n - 1)}

\* node(*args) on a node that holds at most MaxArgs operands afterwards
CallNode(n, args) == Fits(n, args, MaxArgs) /\ NodeCall(n, args)

\* The connection the facade is used on
PlainConnect == \E url \in {u \in Urls : Len(u) = 8} : Connect(url, <<>>, <<>>)

NextNodes ==
    \/ PlainConnect
    \/ \E c \in CallIds : NewSession(c) \/ ReadlinesStep(c) \/ IqueryStep(c)
    \/ \E name \in {T_scan, T_create_array} : DBGetattr(name)
    \/ \E op \in {T_Store, T_remove} : NodeNew(op)
    \/ \E n \in 1..MaxNodes : \E args \in ArgLists(n) : CallNode(n, args)
    \/ \E n \in 1..MaxNodes, via \in {"fetch", "getitem"} : NodeFetch(n, via)

SpecNodes == Init /\ [][NextNodes]_vars

NextFacade ==
    \/ PlainConnect
    \/ \E c \in CallIds : NewSession(c) \/ ReadlinesStep(c)
    \/ LoadLibrary
    \/ \E name \in Names : DBGetattr(name)
    \/ \E n \in 1..MaxNodes, name \in Names : NodeGetattr(n, name)
    \/ \E name \in Names : ArraysGetattr(name)

SpecFacade == Init /\ [][NextFacade]_vars

----------------------------------------------------------------------------
(* Claims about the facade and the SciDB nodes *)

Hungry(n) == Lower(nodes[n].operator) \in HungryOperators

LiteralArgs(n) == \A i \in 1..Len(nodes[n].args) : nodes[n].args[i].node = 0

\* The execute_query requests call c has sent with its own query text
Executed(c) ==
    {i \in 1..Len(log) :
        /\ log[i].call = c
        /\ log[i].req.endpoint = "execute_query"
        /\ log[i].req.query = calls[c].query}

\* C3: a node is lazy exactly when its operator, in lower case, is none of
\* create_array, remove, store.  A call of a hungry node runs DB.iquery on
\* the node's text and has sent it when it returns; a call of a lazy node
\* returns the node and starts nothing; requests for a lazy node come from
\* fetch or indexing only, and fetch on a hungry node sends nothing.
C3_HungryExecutesLazyDefers ==
    /\ \A n \in 1..Len(nodes) :
        LET nd == nodes[n] IN
        /\ nd.is_lazy <=> ~Hungry(n)
        /\ nd.last.op = "call" /\ Hungry(n) =>
              /\ nd.last.call # 0
              /\ calls[nd.last.call].kind = "iquery"
              /\ calls[nd.last.call].owner = n
              /\ ~calls[nd.last.call].fetch
              /\ LiteralArgs(n) => calls[nd.last.call].query = StrNode(nodes, n)
              /\ calls[nd.last.call].status = "returned" =>
                     Executed(nd.last.call) # {}
        /\ nd.last.op = "call" /\ ~Hungry(n) =>
              nd.last.ret = "self" /\ nd.last.call = 0
        /\ nd.last.op \in {"fetch", "getitem"} /\ Hungry(n) =>
              nd.last.call = 0
        /\ nd.last.op \in {"fetch", "getitem"} /\ ~Hungry(n) =>
              /\ nd.last.call # 0
              /\ calls[nd.last.call].fetch
    /\ \A c \in 1..MaxCalls :
        calls[c].owner # 0 =>
            (Hungry(calls[c].owner) <=> calls[c].via = "call")

C3_Witness ==
    \E n \in 1..Len(nodes) :
        /\ nodes[n].operator = T_remove
        /\ nodes[n].last.op = "call"
        /\ calls[nodes[n].last.call].status = "returned"
        /\ \E i \in Executed(nodes[n].last.call) :
              /\ log[i].req.query = T_remove \o <<"(">> \o T_foo \o <<")">>
              /\ log[i].req.release = 1

\* C8 as stated: every dynamic member access, for an array name or for an
\* operator name, succeeds only for a name of the snapshot taken at
\* construction.
C8_EveryNameResolvedAgainstSnapshot ==
    access.on # "none" =>
        (access.found <=> access.name \in SeqToSet(db.operators))

\* C8 amended: an operator name asked of the DB or of a node is found
\* exactly when it is in the operator list DB.__init__ read, which
\* self.operators still equals; an array name asked of db.arrays is looked
\* up nowhere and always yields an Array.
C8_OperatorsResolvedAgainstSnapshot ==
    /\ db.state = "ready" => db.operators = calls[0].result
    /\ access.on \in {"db", "node"} =>
          /\ access.found <=> access.name \in SeqToSet(calls[0].result)
          /\ access.found => nodes[access.node].operator = access.name
    /\ access.on = "arrays" => access.found /\ access.node = 0

C8_Witness ==
    /\ access.on = "db"
    /\ ~access.found
    /\ access.name \in SeqToSet(catalog)

----------------------------------------------------------------------------
(* AFL expressions: scidbpy/afl.py *)

\* An operand: a string, a number (text holds str(o)), an array handle or
\* another AFLExpression (ref holds the handle, or the node's index).
AStr(text) == [k |-> "str", text |-> text, ref |-> 0]
AArr(h) == [k |-> "arr", text |-> <<>>, ref |-> h]
AExpr(n) == [k |-> "expr", text |-> <<>>, ref |-> n]

\* The name of the array behind handle h
ArrayName(h) == <<"p", "y">> \o IntToStr(h)

\* Operator classes as register_operator and register_infix make them
AflOperators ==
    { [name |-> T_scan, signature |-> <<"array">>, op |-> <<>>],
      [name |-> T_apply, signature |-> <<"array", "args">>, op |-> <<>>],
      [name |-> <<"g", "e", "m", "m">>, signature |-> <<>>, op |-> <<>>],
      [name |-> <<"a", "d", "d">>, signature |-> <<"item", "item">>,
       op |-> <<"+">>] }

Last(q) == q[Len(q)]

\* AFLExpression._check_arguments: TRUE when it raises TypeError
ArityError(signature, ngiven) ==
    /\ Len(signature) # 0
    /\ LET exact == Last(signature) # "args"
           nrequired == Len(signature) - 1 + (IF exact THEN 1 ELSE 0)
       IN ngiven < nrequired

\* BinaryInfixAFLOperator.query unpacks exactly two operands; a node that
\* has a cached result is formatted by its name and not rendered.
RECURSIVE Renders(_, _)
Renders(ns, n) ==
    /\ ns[n].op # <<>> => Len(ns[n].args) = 2
    /\ \A i \in 1..Len(ns[n].args) :
          LET o == ns[n].args[i] IN
          o.k = "expr" /\ ns[o.ref].result = 0 => Renders(ns, o.ref)

AflQuery_IgnoresCache(ns, n) ==
    LET RECURSIVE q(_)
        q(k) ==
            LET fmt(o) ==
                    CASE o.k = "arr" -> ArrayName(o.ref)
                      [] o.k = "expr" -> q(o.ref)
                      [] OTHER -> o.text
                ops == [i \in 1..Len(ns[k].args) |-> fmt(ns[k].args[i])]
            IN IF ns[k].op # <<>>
               THEN <<"(">> \o ops[1] \o <<" ">> \o ns[k].op \o <<" ">>
                    \o ops[2] \o <<")">>
               ELSE ns[k].name \o <<"(">> \o JoinAll(ops, <<",">>) \o <<")">>
    IN q(n)

\* AFLExpression.query, BinaryInfixAFLOperator.query and _format_operand
RECURSIVE AflQuery(_, _)
AflQuery(ns, n) ==
    LET fmt(o) ==
            CASE o.k = "str" -> o.text
              [] o.k = "arr" -> ArrayName(o.ref)
              [] o.k = "expr" ->
                    IF ns[o.ref].result # 0 THEN ArrayName(ns[o.ref].result)
                    ELSE AflQuery(ns, o.ref)
              [] OTHER -> o.text
        ops == [i \in 1..Len(ns[n].args) |-> fmt(ns[n].args[i])]
    IN IF ns[n].op # <<>>
       THEN <<"(">> \o ops[1] \o <<" ">> \o ns[n].op \o <<" ">> \o ops[2]
            \o <<")">>
       ELSE ns[n].name \o <<"(">> \o JoinAll(ops, <<",">>) \o <<")">>

\* operator(*args): AFLExpression.__init__
AflNew(operator, args) ==
    /\ IF ArityError(operator.signature, Len(args))
       THEN /\ built' = [sig |-> operator.signature, ngiven |-> Len(args),
                         raised |-> TRUE, node |-> 0]
            /\ UNCHANGED afl
       ELSE /\ Len(afl) < MaxAfl
            /\ afl' = Append(afl, [name |-> operator.name,
                                   op |-> operator.op,
                                   args |-> args, result |-> 0])
            /\ built' = [sig |-> operator.signature, ngiven |-> Len(args),
                         raised |-> FALSE, node |-> Len(afl) + 1]
    /\ UNCHANGED <<dbVars, nodeVars, aflLog, arrays, evals, dis, codec, axisCall>>

Cached_Never(nd) == FALSE

\* self._result is not None
Cached(nd) == nd.result # 0

\* The handle a caller passes as out; new_array() hands out 1, 2, ...
CallerArray == 9

T_store_open == T_store \o <<"(">>

\* node.eval(out=out, store=store), out = 0 standing for None; ok tells
\* whether interface._execute_query succeeds
Eval(n, out, store, ok) ==
    /\ n \in 1..Len(afl)
    /\ Len(evals) < MaxEvals
    /\ LET nd == afl[n]
           call == [node |-> n, out |-> out, store |-> store, pc |-> "done"] IN
       IF Cached(nd)
       THEN /\ evals' = Append(evals, call @@ [ret |-> nd.result,
                                               raised |-> FALSE,
                                               queries |-> 0, created |-> 0])
            /\ UNCHANGED <<afl, aflLog, arrays>>
       ELSE IF ~store
       THEN /\ evals' = Append(evals, call @@
                   [ret |-> 0, raised |-> ~Renders(afl, n) \/ ~ok,
                    queries |-> IF Renders(afl, n) THEN 1 ELSE 0,
                    created |-> 0])
            /\ aflLog' = IF Renders(afl, n)
                         THEN Append(aflLog, [node |-> n, store |-> FALSE,
                                              ok |-> ok,
                                              query |-> AflQuery(afl, n)])
                         ELSE aflLog
            /\ UNCHANGED <<afl, arrays>>
       ELSE LET o == IF out = 0 THEN arrays + 1 ELSE out IN
            /\ arrays' = IF out = 0 THEN arrays + 1 ELSE arrays
            /\ afl' = [afl EXCEPT ![n].result = o]
            /\ aflLog' = IF Renders(afl, n)
                         THEN Append(aflLog,
                                  [node |-> n, store |-> TRUE, ok |-> ok,
                                   query |-> T_store_open \o AflQuery(afl, n)
                                             \o <<",", " ">> \o ArrayName(o)
                                             \o <<")">>])
                         ELSE aflLog
            /\ evals' = Append(evals, call @@
                   [ret |-> IF Renders(afl, n) /\ ok THEN o ELSE 0,
                    raised |-> ~Renders(afl, n) \/ ~ok,
                    queries |-> IF Renders(afl, n) THEN 1 ELSE 0,
                    created |-> IF out = 0 THEN 1 ELSE 0])
    /\ UNCHANGED <<dbVars, nodeVars, built, dis, codec, axisCall>>

\* The operand lists given to a constructor: an array or an earlier
\* expression first, strings after it
AflArgs(k) ==
    IF k = 0 THEN {<<>>}
    ELSE {<<first>> \o [i \in 1..(k - 1) |-> AStr(<<"x">>)] :
             first \in {AArr(CallerArray)} \cup {AExpr(m) : m \in 1..Len(afl)}}

\* Expressions are built and evaluated
NextAFL ==
    \/ \E operator \in {o \in AflOperators : o.op # <<>>},
          k \in 2..3 : \E args \in AflArgs(k) : AflNew(operator, args)
    \/ \E n \in 1..MaxAfl, out \in {0, CallerArray}, store \in BOOLEAN,
          ok \in BOOLEAN : Eval(n, out, store, ok)

SpecAFL == Init /\ [][NextAFL]_vars

\* Operators of every signature are called with every number of operands
NextArity ==
    \E operator \in AflOperators, k \in 0..MaxGiven :
        \E args \in AflArgs(k) : AflNew(operator, args)

SpecArity == Init /\ [][NextArity]_vars

----------------------------------------------------------------------------
(* Claims about AFL expressions *)

StoreQueries(n) ==
    {i \in 1..Len(aflLog) : aflLog[i].node = n /\ aflLog[i].store}

ArraysCreated(n) ==
    {i \in 1..Len(evals) : evals[i].node = n /\ evals[i].created = 1}

\* C4: after an eval with store=True has returned a handle, every later
\* eval of that node returns the same handle, raises nothing, executes no
\* query and creates no array; a node's store query is executed at most
\* once and at most one array is created for it.
C4_EvalCachedAfterStore ==
    /\ \A i, j \in 1..Len(evals) :
          /\ i < j
          /\ evals[i].node = evals[j].node
          /\ evals[i].store /\ ~evals[i].raised /\ evals[i].ret # 0
          => /\ evals[j].ret = evals[i].ret
             /\ ~evals[j].raised
             /\ evals[j].queries = 0
             /\ evals[j].created = 0
    /\ \A n \in 1..Len(afl) :
          /\ Cardinality(StoreQueries(n)) <= 1
          /\ Cardinality(ArraysCreated(n)) <= 1

C4_Witness ==
    \E i, j \in 1..Len(evals) :
        /\ i < j
        /\ evals[i].node = evals[j].node
        /\ evals[i].store /\ evals[i].out = 0 /\ ~evals[i].raised
        /\ evals[i].ret # 0
        /\ evals[j].out = CallerArray
        /\ evals[j].ret = evals[i].ret
        /\ Cardinality(StoreQueries(evals[i].node)) = 1

\* C5: constructing an operator raises the arity error exactly when the
\* number of operands is outside the signature (exactly N for a signature
\* of N entries, at least N-1 for one that ends in 'args'), and then no
\* node is created.  Operators registered without a signature are left
\* out of the statement.
C5_ArityChecked ==
    LET N == Len(built.sig)
        within == IF N > 0 /\ Last(built.sig) = "args"
                  THEN built.ngiven >= N - 1
                  ELSE built.ngiven = N
    IN N > 0 => /\ built.raised <=> ~within
                /\ built.raised => built.node = 0

----------------------------------------------------------------------------
(* schema_utils: name disambiguation across the operands of an operator *)

T_tmp == <<"t", "m", "p">>
T_dimspec == <<"=", "0", ":", "9", ",", "1", "0", "0", "0", ",", "0">>

\* str.replace(old, new, 1): the leftmost occurrence only
RECURSIVE Replace1(_, _, _)
Replace1(s, old, new) ==
    IF Len(s) < Len(old) THEN s
    ELSE IF SubSeq(s, 1, Len(old)) = old
         THEN new \o SubSeq(s, Len(old) + 1, Len(s))
         ELSE <<Head(s)>> \o Replace1(Tail(s), old, new)

\* The text before the first `ch`, and the text after it
RECURSIVE Before(_, _)
Before(s, ch) ==
    IF s = <<>> \/ Head(s) = ch THEN <<>>
    ELSE <<Head(s)>> \o Before(Tail(s), ch)

RECURSIVE After(_, _)
After(s, ch) ==
    IF s = <<>> THEN <<>>
    ELSE IF Head(s) = ch THEN Tail(s) ELSE After(Tail(s), ch)

RECURSIVE Split(_, _)
Split(s, ch) ==
    IF \A i \in 1..Len(s) : s[i] # ch THEN <<s>>
    ELSE <<Before(s, ch)>> \o Split(After(s, ch), ch)

\* datashape.schema: '<att:type,...> [dim=lo:hi,chunk,overlap,...]'
DsSchema(ds) ==
    <<"<">> \o JoinAll([i \in 1..Len(ds.atts) |->
                           ds.atts[i] \o <<":">> \o T_int64], <<",">>)
    \o <<">", " ", "[">>
    \o JoinAll([i \in 1..Len(ds.dims) |-> ds.dims[i] \o T_dimspec], <<",">>)
    \o <<"]">>

\* SciDBDataShape.from_schema: the names read back from a schema text
FromSchema(text) ==
    LET attText == Before(After(text, "<"), ">")
        dimText == Before(After(text, "["), "]")
        attParts == Split(attText, ",")
        dimParts == SelectSeq(Split(dimText, ","),
                              LAMBDA part : \E i \in 1..Len(part) :
                                                part[i] = "=")
    IN [atts |-> [i \in 1..Len(attParts) |-> Before(attParts[i], ":")],
        dims |-> [i \in 1..Len(dimParts) |-> Before(dimParts[i], "=")]]

\* _unique: val, or val_offset for the lowest offset >= 2 not taken
RECURSIVE UniqueFrom(_, _, _)
UniqueFrom(val, taken, offset) ==
    LET cand == val \o <<"_">> \o IntToStr(offset) IN
    IF cand \in taken THEN UniqueFrom(val, taken, offset + 1) ELSE cand

Unique(val, taken) ==
    IF val \notin taken THEN val ELSE UniqueFrom(val, taken, 2)

RenameAtt(ds, index, name) ==
    IF ds.atts[index] = name THEN ds
    ELSE FromSchema(T_tmp \o DsSchema([ds EXCEPT !.atts[index] = name]))

RenameDim(ds, index, name) ==
    IF ds.dims[index] = name THEN ds
    ELSE FromSchema(Replace1(T_tmp \o DsSchema(ds),
                             ds.dims[index] \o <<"=">>, name \o <<"=">>))

\* The two loops of disambiguate over one array: a pair of the renamed
\* datashape and the names taken so far.
RECURSIVE RenameAtts(_, _, _, _)
RenameAtts(names, i, ds, taken) ==
    IF i > Len(names) THEN [ds |-> ds, taken |-> taken]
    ELSE LET att == Unique(names[i], taken)
         IN RenameAtts(names, i + 1, RenameAtt(ds, i, att),
                       taken \cup {att})

RECURSIVE RenameDims(_, _, _, _)
RenameDims(names, i, ds, taken) ==
    IF i > Len(names) THEN [ds |-> ds, taken |-> taken]
    ELSE LET dim == Unique(names[i], taken)
         IN RenameDims(names, i + 1, RenameDim(ds, i, dim),
                       taken \cup {dim})

\* An operand is a SciDBArray with a datashape, or anything else.
NotArray == [isArray |-> FALSE, atts |-> <<>>, dims |-> <<>>, cast |-> FALSE]

RECURSIVE AllNames(_)
AllNames(arrs) ==
    IF arrs = <<>> THEN <<>>
    ELSE (IF Head(arrs).isArray THEN Head(arrs).dims \o Head(arrs).atts
          ELSE <<>>) \o AllNames(Tail(arrs))

DisambiguateLoop_AlwaysCast(arrs, taken, result) ==
    LET RECURSIVE loop(_, _, _)
        loop(rest, tk, acc) ==
            IF rest = <<>> THEN acc
            ELSE LET a == Head(rest) IN
                 IF ~a.isArray THEN loop(Tail(rest), tk, Append(acc, a))
                 ELSE LET ds0 == [atts |-> a.atts, dims |-> a.dims]
                          r1 == RenameAtts(a.atts, 1, ds0, tk)
                          r2 == RenameDims(a.dims, 1, r1.ds, r1.taken)
                      IN loop(Tail(rest), r2.taken,
                              Append(acc, [isArray |-> TRUE,
                                           atts |-> r2.ds.atts,
                                           dims |-> r2.ds.dims,
                                           cast |-> TRUE]))
    IN loop(arrs, taken, result)

\* for a in arrays: ... result.append(a) or result.append(afl.cast(...))
RECURSIVE DisambiguateLoop(_, _, _)
DisambiguateLoop(arrs, taken, result) ==
    IF arrs = <<>> THEN result
    ELSE LET a == Head(arrs) IN
         IF ~a.isArray
         THEN DisambiguateLoop(Tail(arrs), taken, Append(result, a))
         ELSE LET ds0 == [atts |-> a.atts, dims |-> a.dims]
                  r1 == RenameAtts(a.atts, 1, ds0, taken)
                  r2 == RenameDims(a.dims, 1, r1.ds, r1.taken)
                  out == IF DsSchema(r2.ds) = DsSchema(ds0) THEN a
                         ELSE [isArray |-> TRUE, atts |-> r2.ds.atts,
                               dims |-> r2.ds.dims, cast |-> TRUE]
              IN DisambiguateLoop(Tail(arrs), r2.taken, Append(result, out))

DisambiguateResult(arrs) ==
    LET all_names == AllNames(arrs) IN
    IF Cardinality(SeqToSet(all_names)) = Len(all_names) THEN arrs
    ELSE DisambiguateLoop(arrs, {}, <<>>)

N_i == <<"i">>
N_x == <<"x">>
N_xi == <<"x", "i">>
N_i2 == <<"i", "_", "2">>

Operands ==
    {NotArray} \cup
    { [isArray |-> TRUE, atts |-> a, dims |-> d, cast |-> FALSE] :
        a \in {<<N_x>>, <<N_i>>},
        d \in {<<N_i>>, <<N_xi, N_i>>, <<N_i, N_xi>>, <<N_i, N_i2>>,
               <<N_i2>>} }

OperandLists ==
    UNION {[1..n -> Operands] : n \in 1..MaxOperands}

\* disambiguate(*arrays), called once
Disambiguate(arrs) ==
    /\ dis = NoDis
    /\ dis' = [input |-> arrs, result |-> DisambiguateResult(arrs)]
    /\ UNCHANGED <<dbVars, nodeVars, aflVars, codec, axisCall>>

NextDisambiguate == \E arrs \in OperandLists : Disambiguate(arrs)

SpecDisambiguate == Init /\ [][NextDisambiguate]_vars

\* The names of the array operands, in the order disambiguate visits them
RECURSIVE VisitNames(_)
VisitNames(arrs) ==
    IF arrs = <<>> THEN <<>>
    ELSE (IF Head(arrs).isArray THEN Head(arrs).atts \o Head(arrs).dims
          ELSE <<>>) \o VisitNames(Tail(arrs))

\* C9: after disambiguate the attribute and dimension names of all array
\* operands of the result, taken together, are pairwise distinct.
C9_ResultNamesDistinct ==
    LET names == VisitNames(dis.result)
    IN \A i, j \in 1..Len(names) : i # j => names[i] # names[j]

\* The names a left-to-right visit assigns: a name not yet assigned is
\* kept, any other gets the lowest unused suffix from _2.
RECURSIVE Assigned(_, _, _)
Assigned(names, taken, acc) ==
    IF names = <<>> THEN acc
    ELSE LET n == Unique(Head(names), taken)
         IN Assigned(Tail(names), taken \cup {n}, Append(acc, n))

\* C10: the result carries, name by name in visiting order (attributes
\* before dimensions, operands left to right), the first occurrence of a
\* name unchanged and each later one with the lowest unused suffix
\* starting at _2.
C10_LowestSuffixInVisitOrder ==
    VisitNames(dis.result) = Assigned(VisitNames(dis.input), {}, <<>>)

----------------------------------------------------------------------------
(* disambiguate applied to its own result *)

\* disambiguate(*result) for the result of the call before
DisambiguateAgain ==
    /\ dis # NoDis
    /\ dis' = [input |-> dis.result, result |-> DisambiguateResult(dis.result)]
    /\ UNCHANGED <<dbVars, nodeVars, aflVars, codec, axisCall>>

NextIdempotent ==
    \/ \E arrs \in OperandLists : Disambiguate(arrs)
    \/ DisambiguateAgain

SpecIdempotent == Init /\ [][NextIdempotent]_vars

----------------------------------------------------------------------------
(* The binary buffers: DB.iquery decodes one, DB.iquery_upload builds one *)

\* An attribute of the schema: width is the size of a value in bytes, 0 for
\* a value of variable length; nullable tells whether a cell starts with a
\* null byte.
Att(width, nullable) == [width |-> width, nullable |-> nullable]

\* Bytes of the length that precedes a value of variable length
LengthSize == 4

\* A length this large or larger is past the end of every buffer
TooLong == 65536

NullSize(att) == IF att.nullable THEN 1 ELSE 0

Valid == 255

\* The little-endian length at b[1..LengthSize]
LengthOf(b) ==
    IF \E i \in 3..LengthSize : b[i] # 0 THEN TooLong
    ELSE b[1] + 256 * b[2]

LengthBytes(k) == <<k % 256, k \div 256>> \o [i \in 1..(LengthSize - 2) |-> 0]

\* att.itemsize(buf, off): the size of the cell at off, -1 when the length
\* cannot be read from the buffer.  Offsets count from 0 as in the code.
ItemSize(att, buf, off) ==
    IF att.width # 0 THEN NullSize(att) + att.width
    ELSE LET at == off + NullSize(att) IN
         IF at + LengthSize > Len(buf) THEN -1
         ELSE NullSize(att) + LengthSize
              + LengthOf(SubSeq(buf, at + 1, at + LengthSize))

NoCell == [null |-> Valid, val |-> <<>>]

\* att.frombytes(buf, off, sz): the cell, or raised when the span is not
\* inside the buffer
FromBytes(att, buf, off, sz) ==
    IF off + sz > Len(buf) THEN [raised |-> TRUE, cell |-> NoCell]
    ELSE LET skip == NullSize(att)
                     + (IF att.width = 0 THEN LengthSize ELSE 0)
         IN [raised |-> FALSE,
             cell |-> [null |-> IF att.nullable THEN buf[off + 1] ELSE Valid,
                       val |-> SubSeq(buf, off + skip + 1, off + sz)]]

\* att.tobytes(value)
ToBytes(att, value) ==
    (IF att.nullable THEN <<value.null>> ELSE <<>>)
    \o (IF att.width = 0 THEN LengthBytes(Len(value.val)) ELSE <<>>)
    \o value.val

\* The for loop over sch.atts inside the scan: the (off, sz) pairs of one
\* record starting at off
RECURSIVE ScanRecord(_, _, _, _, _)
ScanRecord(atts, i, buf, off, meta) ==
    IF i > Len(atts) THEN [raised |-> FALSE, meta |-> meta, off |-> off]
    ELSE LET sz == ItemSize(atts[i], buf, off) IN
         IF sz < 0 THEN [raised |-> TRUE, meta |-> meta, off |-> off]
         ELSE ScanRecord(atts, i + 1, buf, off + sz,
                         Append(meta, [off |-> off, sz |-> sz]))

ScanBuf_DropPartial(atts, buf, off, buf_meta) ==
    LET RECURSIVE scan(_, _)
        scan(o, acc) ==
            IF o >= Len(buf) THEN [raised |-> FALSE, buf_meta |-> acc]
            ELSE LET r == ScanRecord(atts, 1, buf, o, <<>>) IN
                 IF r.raised \/ r.off > Len(buf)
                 THEN [raised |-> FALSE, buf_meta |-> acc]
                 ELSE scan(r.off, Append(acc, r.meta))
    IN scan(off, buf_meta)

\* while off < len(buf): ... buf_meta.append(meta)
RECURSIVE ScanBuf(_, _, _, _)
ScanBuf(atts, buf, off, buf_meta) ==
    IF off >= Len(buf) THEN [raised |-> FALSE, buf_meta |-> buf_meta]
    ELSE LET r == ScanRecord(atts, 1, buf, off, <<>>) IN
         IF r.raised THEN [raised |-> TRUE, buf_meta |-> buf_meta]
         ELSE ScanBuf(atts, buf, r.off, Append(buf_meta, r.meta))

\* The array DB.iquery builds from the buffer: one tuple per record
Decode(atts, buf) ==
    LET scanned == ScanBuf(atts, buf, 0, <<>>)
        metas == scanned.buf_meta
        cells == [r \in 1..Len(metas) |->
                     [a \in 1..Len(atts) |->
                         FromBytes(atts[a], buf, metas[r][a].off,
                                   metas[r][a].sz)]]
        failed == \E r \in 1..Len(metas), a \in 1..Len(atts) :
                      cells[r][a].raised
    IN IF scanned.raised \/ failed
       THEN [raised |-> TRUE, rows |-> <<>>]
       ELSE [raised |-> FALSE,
             rows |-> [r \in 1..Len(metas) |->
                          [a \in 1..Len(atts) |-> cells[r][a].cell]]]

\* cell if no_v == 0 else cell[idx]
Field(cell, idx, no_v) == IF no_v = 0 THEN cell[1] ELSE cell[idx]

RECURSIVE Concat(_)
Concat(parts) ==
    IF parts = <<>> THEN <<>> ELSE Head(parts) \o Concat(Tail(parts))

Encode_ByAttribute(atts, no_v, values) ==
    Concat([a \in 1..Len(atts) |->
               Concat([r \in 1..Len(values) |->
                          ToBytes(atts[a], Field(values[r], a, no_v))])])

\* data = b''.join(data_lst): cell by cell, attribute by attribute
Encode(atts, no_v, values) ==
    Concat([r \in 1..Len(values) |->
               Concat([a \in 1..Len(atts) |->
                          ToBytes(atts[a], Field(values[r], a, no_v))])])

ByteValues == {0, 1, 255}

Buffers == UNION {[1..n -> ByteValues] : n \in 0..MaxBuf}

CodecSchemas ==
    { <<Att(1, FALSE)>>, <<Att(1, TRUE)>>, <<Att(0, FALSE)>>,
      <<Att(1, FALSE), Att(0, TRUE)>>, <<Att(1, TRUE), Att(1, FALSE)>> }

\* The values a caller can hold for an attribute
CellValues(att) ==
    { [null |-> n, val |-> v] :
        n \in (IF att.nullable THEN {Valid, 0} ELSE {Valid}),
        v \in (IF att.width = 0 THEN {<<>>, <<1>>} ELSE {<<0>>, <<1>>}) }

RowValues(atts) ==
    {row \in [1..Len(atts) -> UNION {CellValues(atts[a]) : a \in 1..Len(atts)}] :
        \A a \in 1..Len(atts) : row[a] \in CellValues(atts[a])}

UploadRows(atts) == UNION {[1..n -> RowValues(atts)] : n \in 0..MaxRows}

\* db.iquery(...) has read buf for a schema with these attributes
DecodeBuffer(atts, buf) ==
    /\ codec = NoCodec
    /\ LET d == Decode(atts, buf) IN
       codec' = [NoCodec EXCEPT !.op = "decode", !.atts = atts, !.buf = buf,
                                !.raised = d.raised, !.rows = d.rows]
    /\ UNCHANGED <<dbVars, nodeVars, aflVars, dis, axisCall>>

\* The bytes iquery_upload builds from values are fetched back with the
\* same schema
UploadThenDecode(atts, no_v, values) ==
    /\ codec = NoCodec
    /\ (no_v = 0 /\ Len(atts) = 1) \/ no_v = Len(atts)
    /\ LET data == Encode(atts, no_v, values)
           d == Decode(atts, data) IN
       codec' = [NoCodec EXCEPT !.op = "upload", !.atts = atts,
                                !.no_v = no_v, !.values = values,
                                !.buf = data, !.raised = d.raised,
                                !.rows = d.rows]
    /\ UNCHANGED <<dbVars, nodeVars, aflVars, dis, axisCall>>

NextCodec ==
    \/ \E atts \in CodecSchemas, buf \in Buffers : DecodeBuffer(atts, buf)
    \/ \E atts \in CodecSchemas, no_v \in 0..2 :
          \E values \in UploadRows(atts) : UploadThenDecode(atts, no_v, values)

SpecCodec == Init /\ [][NextCodec]_vars

\* The end of the record that starts at off when all of it lies inside the
\* buffer, -1 otherwise
RECURSIVE RecordEnd(_, _, _, _)
RecordEnd(atts, i, buf, off) ==
    IF i > Len(atts) THEN off
    ELSE LET att == atts[i]
             at == off + NullSize(att)
             end == IF att.width # 0 THEN at + att.width
                    ELSE IF at + LengthSize > Len(buf) THEN -1
                    ELSE at + LengthSize
                         + LengthOf(SubSeq(buf, at + 1, at + LengthSize))
         IN IF end < 0 \/ end > Len(buf) THEN -1
            ELSE RecordEnd(atts, i + 1, buf, end)

\* The buffer from off on is a sequence of whole records
RECURSIVE WholeRecords(_, _, _)
WholeRecords(atts, buf, off) ==
    \/ off = Len(buf)
    \/ LET end == RecordEnd(atts, 1, buf, off) IN
       end >= 0 /\ WholeRecords(atts, buf, end)

C14_UploadDecodeRoundTrip ==
    codec.op = "upload" =>
        /\ ~codec.raised
        /\ Len(codec.rows) = Len(codec.values)
        /\ \A r \in 1..Len(codec.values), a \in 1..Len(codec.atts) :
              codec.rows[r][a] = Field(codec.values[r], a, codec.no_v)

C14_Witness ==
    /\ codec.op = "upload"
    /\ Len(codec.values) = 2 /\ Len(codec.atts) = 2
    /\ codec.values[1] # codec.values[2]
    /\ \E a \in 1..2 : codec.values[2][a].null # Valid
    /\ codec.rows = codec.values

----------------------------------------------------------------------------
(* Claims about DB.iquery_upload and about fetch=False *)

\* The requests call c has sent to one of these endpoints
Sent(c, endpoints) ==
    {i \in 1..Len(log) : log[i].call = c /\ log[i].req.endpoint \in endpoints}

\* Call c has been given its session
Opened(c) == \E i \in Sent(c, {"new_session"}) : log[i].ok

\* C13: iquery_upload takes a NumPy array exactly when a schema is given
\* and the values have as many named fields as the schema has attributes,
\* or no named fields for a schema of one attribute; otherwise it raises
\* and sends neither an upload nor an execute_query.
C13_UploadChecksAttributeCount ==
    \A c \in CallIds :
        calls[c].kind = "upload" /\ calls[c].values.ndarray =>
            LET v == calls[c].values
                sch == calls[c].schema
                accept == /\ sch # NoSchema
                          /\ \/ v.no_v = Len(sch.atts)
                             \/ v.no_v = 0 /\ Len(sch.atts) = 1
            IN /\ ~accept => /\ Sent(c, {"upload", "execute_query"}) = {}
                             /\ Finished(c) => calls[c].status = "raised"
               /\ accept /\ Opened(c) /\ Finished(c)
                     => Sent(c, {"upload"}) # {}

C13_Witness ==
    \E c \in CallIds :
        /\ calls[c].kind = "upload" /\ calls[c].values.ndarray
        /\ calls[c].schema # NoSchema
        /\ calls[c].values.no_v = 2 /\ Len(calls[c].schema.atts) = 1
        /\ Opened(c)
        /\ calls[c].status = "raised"
        /\ Sent(c, {"upload", "execute_query"}) = {}

\* The requests of call c, in the order they were sent
Requests(c) == SelectSeq(log, LAMBDA e : e.call = c)

\* C15: DB.iquery with fetch=False sends new_session and then one
\* execute_query with the caller's query, release=1 and no save format,
\* and nothing else: no read_bytes and no release_session.
C15_NoFetchTwoRequests ==
    \A c \in CallIds :
        calls[c].kind = "iquery" /\ ~calls[c].fetch =>
            LET es == Requests(c) IN
            /\ Len(es) <= 2
            /\ Len(es) >= 1 => es[1].req.endpoint = "new_session"
            /\ Len(es) = 2 =>
                  /\ es[1].ok
                  /\ es[2].req.endpoint = "execute_query"
                  /\ es[2].req.id = calls[c].id
                  /\ es[2].req.query = calls[c].query
                  /\ es[2].req.release = 1
                  /\ es[2].req.save = <<>>
            /\ calls[c].status = "returned" => Len(es) = 2 /\ es[2].ok

C15_Witness ==
    \E c \in CallIds :
        /\ calls[c].kind = "iquery" /\ ~calls[c].fetch
        /\ calls[c].status = "returned"
        /\ Len(Requests(c)) = 2
        /\ Requests(c)[2].req.release = 1

\* C20: iquery_upload sends new_session, upload, execute_query in this
\* order and on one session id; execute_query follows only an upload that
\* succeeded and carries the caller's template with the file name that
\* upload returned in place of {}.
C20_UploadRequestOrder ==
    \A c \in CallIds :
        calls[c].kind = "upload" =>
            LET es == Requests(c) IN
            /\ Len(es) <= 3
            /\ Len(es) >= 1 => es[1].req.endpoint = "new_session"
            /\ Len(es) >= 2 =>
                  /\ es[1].ok
                  /\ es[2].req.endpoint = "upload"
                  /\ es[2].req.id = calls[c].id
            /\ Len(es) = 3 =>
                  /\ es[2].ok
                  /\ es[3].req.endpoint = "execute_query"
                  /\ es[3].req.id = calls[c].id
                  /\ calls[c].query = T_load
                  /\ es[3].req.query =
                        SubSeq(T_load, 1, 11) \o calls[c].fn
                        \o SubSeq(T_load, 14, 15)
                  /\ calls[c].fn = <<"/", "u">> \o IntToStr(calls[c].id)
            /\ calls[c].status = "returned" => Len(es) = 3 /\ es[3].ok

C20_Witness ==
    \E c \in CallIds :
        /\ calls[c].kind = "upload"
        /\ calls[c].status = "returned"
        /\ Len(Requests(c)) = 3
        /\ Requests(c)[3].req.query # calls[c].query

----------------------------------------------------------------------------
(* create_array nodes, called with up to MaxCreateArgs operands *)

T_schema == <<"<", "x", ":", "i", "n", "t", "6", "4", ">", "[", "i", "]">>
T_True == <<"T", "r", "u", "e">>
T_Create_array ==
    <<"C", "r", "e", "a", "t", "e", "_", "a", "r", "r", "a", "y">>

\* name, schema, temporary flag, and operands past them
CreateArgLists ==
    UNION { {<<>>},
            {<<Lit(nm)>> : nm \in {T_foo, T_bar, T_array}},
            {<<Lit(nm), Lit(T_schema)>> : nm \in {T_foo, T_bar}},
            {<<Lit(nm), Lit(T_schema), Lit(t)>> \o
                 [i \in 1..(MaxCreateArgs - 3) |-> Lit(T_bar)] :
                 nm \in {T_foo, T_bar}, t \in {T_True, T_False}} }

\* node(*args) on a create_array node
CallCreate(n, args) == Fits(n, args, MaxCreateArgs) /\ NodeCall(n, args)

NextCreate ==
    \/ PlainConnect
    \/ \E c \in CallIds :
          NewSession(c) \/ ReadlinesStep(c) \/ IqueryExecuteRelease(c)
    \/ DBGetattr(T_create_array)
    \/ NodeNew(T_Create_array)
    \/ \E n \in 1..MaxNodes : \E args \in CreateArgLists : CallCreate(n, args)

SpecCreate == Init /\ [][NextCreate]_vars

IsCreateArray(n) == StartsWith(Lower(nodes[n].operator), T_create_array)

\* C17: a call of a create_array node that leaves it with name and schema
\* only executes create_array(name, schema, False); False is appended once,
\* at the end, exactly when fewer than three operands are present after
\* the call's operands were added, and nothing is appended otherwise.
C17_CreateArrayDefaultsToFalse ==
    \A n \in 1..Len(nodes) :
        IsCreateArray(n) /\ nodes[n].last.op = "call" =>
            LET ext == nodes[n].last.ext
                now == nodes[n].args
                c == nodes[n].last.call
            IN /\ Len(ext) >= 3 => now = ext
               /\ Len(ext) < 3 => now = Append(ext, Lit(T_False))
               /\ Len(ext) = 2 =>
                     /\ Len(now) = 3 /\ now[3] = Lit(T_False)
                     /\ calls[c].query =
                           nodes[n].operator \o <<"(">> \o ext[1].lit \o CommaSp
                           \o ext[2].lit \o CommaSp \o T_False \o <<")">>

C17_Witness ==
    \E n \in 1..Len(nodes) :
        /\ IsCreateArray(n) /\ nodes[n].last.op = "call"
        /\ nodes[n].last.ext = <<Lit(T_foo), Lit(T_schema)>>
        /\ nodes[n].args[3] = Lit(T_False)
        /\ calls[nodes[n].last.call].status = "returned"
        /\ Sent(nodes[n].last.call, {"execute_query"}) # {}

\* Node n has been executed: a DB operation started for it has returned
Evaluated(n) ==
    \E c \in CallIds :
        /\ calls[c].kind = "iquery"
        /\ calls[c].owner = n
        /\ calls[c].status = "returned"

\* C16: once a node has been executed, no later call on it changes its
\* operand list or its rendered text.
C16_OperandsFixedAfterEvaluation ==
    [][\A n \in 1..Len(nodes) :
          Evaluated(n) => /\ nodes'[n].args = nodes[n].args
                          /\ StrNode(nodes', n) = StrNode(nodes, n)]_vars

----------------------------------------------------------------------------
(* The text of nested AFL expressions *)

\* Plain and infix operators over an array, a string and earlier nodes;
\* nodes are evaluated into arrays that new_array() creates
NextRender ==
    \/ \E operator \in {o \in AflOperators : Len(o.signature) = 2} :
          \E args \in AflArgs(2) : AflNew(operator, args)
    \/ \E n \in 1..MaxAfl, store \in BOOLEAN, ok \in BOOLEAN :
          Eval(n, 0, store, ok)

SpecRender == Init /\ [][NextRender]_vars

\* What _format_operand gives for operand o
OperandText(o) ==
    CASE o.k = "str" -> o.text
      [] o.k = "arr" -> ArrayName(o.ref)
      [] o.k = "expr" ->
            IF afl[o.ref].result # 0 THEN ArrayName(afl[o.ref].result)
            ELSE AflQuery(afl, o.ref)
      [] OTHER -> o.text

OperandTexts(n) == [i \in 1..Len(afl[n].args) |-> OperandText(afl[n].args[i])]

\* C18 as stated: every node renders as operatorName(op1,op2,...), each
\* operand by the rules of _format_operand.
C18_EveryNodeRendersAsCall ==
    \A n \in 1..Len(afl) :
        Renders(afl, n) =>
            AflQuery(afl, n) =
                afl[n].name \o <<"(">> \o JoinAll(OperandTexts(n), <<",">>)
                \o <<")">>

\* C18 amended: a plain operator renders as operatorName(op1,op2,...) and
\* a binary infix operator as (op1 token op2); in both an evaluated nested
\* node is rendered by the name of its result array, an unevaluated one
\* by its own text, an array by its name and a string verbatim.
C18_RenderedByOperatorKind ==
    \A n \in 1..Len(afl) :
        Renders(afl, n) =>
            AflQuery(afl, n) =
                IF afl[n].op = <<>>
                THEN afl[n].name \o <<"(">>
                     \o JoinAll(OperandTexts(n), <<",">>) \o <<")">>
                ELSE <<"(">> \o OperandTexts(n)[1] \o <<" ">> \o afl[n].op
                     \o <<" ">> \o OperandTexts(n)[2] \o <<")">>

\* A parent was evaluated after its child had been stored, and its query
\* names the child's array
C18_Witness ==
    \E i \in 1..Len(aflLog) :
        LET p == aflLog[i].node IN
        /\ afl[p].op = <<>>
        /\ afl[p].args[1].k = "expr"
        /\ afl[afl[p].args[1].ref].result # 0
        /\ ~aflLog[i].store
        /\ aflLog[i].query =
              afl[p].name \o <<"(">>
              \o ArrayName(afl[afl[p].args[1].ref].result) \o <<",">>
              \o afl[p].args[2].text \o <<")">>

----------------------------------------------------------------------------
(* The printable forms of a connection *)

T_None == <<"N", "o", "n", "e">>
T_baz == <<"b", "a", "z">>

Passwords == {T_bar, T_baz}

\* Credentials with either password
PasswordCreds == {<<>>} \cup {<<T_foo, pw>> : pw \in Passwords}

Quoted(text) == <<"'">> \o text \o <<"'">>

\* repr of a public credentials attribute: None, or (user, placeholder)
ReprAuth(a) ==
    IF a = <<>> THEN T_None
    ELSE <<"(">> \o Quoted(a[1]) \o CommaSp \o a[2] \o <<")">>

\* DB.__iter__, as each of the two formats shows it; role, namespace and
\* verify are left at None
IterRepr(d) ==
    <<Quoted(d.scidb_url), ReprAuth(d.scidb_auth), ReprAuth(d.http_auth),
      T_None, T_None, T_None>>

\* DB.__repr__
Repr(d) == <<"D", "B", "(">> \o JoinAll(IterRepr(d), CommaSp) \o <<")">>

\* DB.__str__
Str(d) ==
    LET it == IterRepr(d)
        label == << <<"s", "c", "i", "d", "b", "_", "u", "r", "l", " ", " ">>,
                    <<"s", "c", "i", "d", "b", "_", "a", "u", "t", "h", " ">>,
                    <<"h", "t", "t", "p", "_", "a", "u", "t", "h", " ", " ">>,
                    <<"r", "o", "l", "e", " ", " ", " ", " ", " ", " ", " ">>,
                    <<"n", "a", "m", "e", "s", "p", "a", "c", "e", " ", " ">>,
                    <<"v", "e", "r", "i", "f", "y", " ", " ", " ", " ", " ">> >>
    IN JoinAll([i \in 1..6 |-> label[i] \o <<"=", " ">> \o it[i]], <<"\n">>)

NextConnect ==
    \/ \E url \in Urls, sa \in PasswordCreds, ha \in PasswordCreds :
          Connect(url, sa, ha)
    \/ \E c \in CallIds : NewSession(c) \/ ReadlinesStep(c)

SpecConnect == Init /\ [][NextConnect]_vars

Occurs(sub, text) ==
    \E i \in 1..(Len(text) - Len(sub) + 1) :
        SubSeq(text, i, i + Len(sub) - 1) = sub

\* The object DB.__init__ would have built from the same arguments with
\* pw as the password of both credentials
WithPassword(d, pw) ==
    LET swap(auth) == IF auth = <<>> THEN <<>> ELSE <<auth[1], pw>>
    IN [d EXCEPT !._scidb_auth = swap(@), !._http_auth = swap(@),
                 !.arg_scidb_auth = swap(@),
                 !.scidb_auth = PublicAuth(swap(d._scidb_auth)),
                 !.http_auth = PublicAuth(swap(d._http_auth))]

\* C19: repr, str and the public scidb_auth and http_auth of a connection
\* are the same whatever the passwords it was built with; they show
\* PASSWORD_PROVIDED where a password was given and never the password.
C19_PasswordNeverShown ==
    db.state = "ready" =>
        /\ \A pw \in Passwords :
              LET other == WithPassword(db, pw) IN
              /\ Repr(other) = Repr(db)
              /\ Str(other) = Str(db)
              /\ other.scidb_auth = db.scidb_auth
              /\ other.http_auth = db.http_auth
        /\ \A auth \in {db._scidb_auth, db._http_auth} :
              auth # <<>> =>
                  /\ ~Occurs(auth[2], Repr(db))
                  /\ ~Occurs(auth[2], Str(db))
        /\ db._scidb_auth # <<>> => db.scidb_auth = <<T_foo, T_PASSWORD_PROVIDED>>
        /\ db._http_auth # <<>> => db.http_auth = <<T_foo, T_PASSWORD_PROVIDED>>

C19_Witness ==
    /\ db.state = "ready"
    /\ db._scidb_auth = <<T_foo, T_baz>>
    /\ db._http_auth = <<T_foo, T_bar>>
    /\ Occurs(T_PASSWORD_PROVIDED, Repr(db))
    /\ Occurs(T_PASSWORD_PROVIDED, Str(db))

----------------------------------------------------------------------------
(* The caller's schema *)

\* C21: DB.iquery leaves the schema object the caller passed as it was:
\* no step of an iquery call changes it, the renaming of dimensions and
\* their projection as attributes are done on the call's own copy.
C21_CallerSchemaUntouched ==
    [][\A c \in CallIds :
          calls[c].kind = "iquery" => calls'[c].schema = calls[c].schema]_vars

C21_Witness ==
    \E c \in CallIds :
        /\ calls[c].kind = "iquery"
        /\ calls[c].status = "returned"
        /\ calls[c].fetch
        /\ ~calls[c].atts_only
        /\ calls[c].schema # NoSchema
        /\ MakeDimsUnique(calls[c].schema) # calls[c].schema
        /\ calls[c].sch = MakeDimsAtts(MakeDimsUnique(calls[c].schema))
        /\ calls[c].sch # calls[c].schema

----------------------------------------------------------------------------
(* Operations of several threads on one connection *)

FreeSlots == {c \in 1..MaxThreads : calls[c].kind = "none"}
NextSlot == CHOOSE c \in FreeSlots : \A e \in FreeSlots : c <= e

\* Threads are interchangeable and starting an operation touches nothing
\* the others see, so the slots are filled in the order iquery, readlines,
\* upload: every interleaving of the requests is still produced.
KindRank(kind) ==
    CASE kind = "iquery" -> 1 [] kind = "readlines" -> 2 [] OTHER -> 3

InOrder(kind) ==
    \A e \in 1..MaxThreads :
        calls[e].kind # "none" => KindRank(calls[e].kind) <= KindRank(kind)

\* A thread invokes db.iquery while other operations may be running
SpawnIquery(query) ==
    /\ FreeSlots # {}
    /\ InOrder("iquery")
    /\ BeginIquery(NextSlot, query, FALSE, FALSE, NoSchema)

SpawnReadlines(query) ==
    /\ FreeSlots # {}
    /\ InOrder("readlines")
    /\ BeginReadlines(NextSlot, query)

SpawnUpload(query) ==
    /\ FreeSlots # {}
    /\ InOrder("upload")
    /\ BeginUpload(NextSlot, query, Bytes, NoSchema)

NextThreads ==
    \/ PlainConnect
    \/ \E q \in Queries : SpawnIquery(q)
    \/ \E q \in Queries : SpawnReadlines(q)
    \/ SpawnUpload(T_load)
    \/ \E c \in CallIds : \/ NewSession(c)
                          \/ IqueryExecuteRelease(c)
                          \/ ReadlinesStep(c)
                          \/ UploadStep(c)

SpecThreads == Init /\ [][NextThreads]_vars

\* The session ids the server has answered new_session with, per call
OpenedBy(c) ==
    {i \in 1..Len(log) :
        log[i].call = c /\ log[i].req.endpoint = "new_session" /\ log[i].ok}

\* C22: with operations interleaved on one connection, each operation
\* opens one session of its own, every later request it sends carries the
\* id that its own new_session returned, and no two operations have the
\* same id.
C22_OwnSessionPerOperation ==
    /\ \A c \in CallIds : Cardinality(OpenedBy(c)) <= 1
    /\ \A i \in 1..Len(log) :
          log[i].req.endpoint # "new_session" =>
              /\ OpenedBy(log[i].call) # {}
              /\ \A j \in OpenedBy(log[i].call) : j < i
              /\ log[i].req.id = calls[log[i].call].id
              /\ \A e \in CallIds \ {log[i].call} :
                    calls[e].id # log[i].req.id
    /\ \A c, e \in CallIds :
          c # e /\ calls[c].id # 0 => calls[c].id # calls[e].id

\* Two operations interleaved: each has sent a request after the other
\* opened its session, and before the other finished
C22_Witness ==
    \E i, j, k \in 1..Len(log) :
        /\ i < j /\ j < k
        /\ log[i].call # log[j].call
        /\ log[i].call = log[k].call
        /\ log[i].call # 0 /\ log[j].call # 0
        /\ log[i].req.endpoint = "new_session" /\ log[i].ok
        /\ log[j].req.endpoint = "new_session" /\ log[j].ok
        /\ log[k].req.endpoint # "new_session"
        /\ \E m \in (k + 1)..Len(log) :
              log[m].call = log[j].call /\ log[m].req.endpoint # "new_session"

----------------------------------------------------------------------------
(* The scan of a fetched buffer, one pass of its while loop at a time *)

\* The attribute lists of the schemas a buffer is scanned with; a schema
\* may have no attributes
ScanSchemas == CodecSchemas \cup {<<>>}

\* off = 0; buf_meta = []
ScanStart(atts, buf) ==
    /\ codec = NoCodec
    /\ codec' = [NoCodec EXCEPT !.op = "scanning", !.atts = atts, !.buf = buf]
    /\ UNCHANGED <<dbVars, nodeVars, aflVars, dis, axisCall>>

\* One test of `while off < len(buf)` and, when it holds, one pass of the
\* body.  A scan that advances makes at most len(buf) passes; the passes
\* of one that does not are cut off after that many.
ScanPass ==
    /\ codec.op = "scanning"
    /\ Len(codec.buf_meta) <= Len(codec.buf)
    /\ IF codec.off >= Len(codec.buf)
       THEN codec' = [codec EXCEPT !.op = "scanned"]
       ELSE LET r == ScanRecord(codec.atts, 1, codec.buf, codec.off, <<>>) IN
            IF r.raised
            THEN codec' = [codec EXCEPT !.op = "scanned", !.raised = TRUE]
            ELSE codec' = [codec EXCEPT !.off = r.off,
                                        !.buf_meta = Append(@, r.meta)]
    /\ UNCHANGED <<dbVars, nodeVars, aflVars, dis, axisCall>>

NextScan ==
    \/ \E atts \in ScanSchemas, buf \in Buffers : ScanStart(atts, buf)
    \/ ScanPass

SpecScan == Init /\ [][NextScan]_vars

\* C23: every pass of the scan loop moves the offset forward, so the scan
\* ends after at most len(buf) records, whatever the buffer and the schema.
C23_ScanOffsetIncreases ==
    [][codec.op = "scanning" /\ codec'.op = "scanning"
          => codec'.off > codec.off]_vars

\* The same for schemas that have an attribute
C23_ScanAdvancesWithAttributes ==
    [][codec.op = "scanning" /\ codec'.op = "scanning" /\ codec.atts # <<>>
          => codec'.off > codec.off]_vars

C23_Stuck ==
    /\ codec.op = "scanning"
    /\ codec.atts = <<>>
    /\ codec.off = 0
    /\ Len(codec.buf_meta) > Len(codec.buf)

----------------------------------------------------------------------------
(* A store query that fails *)

\* C24: a node has a cached result only when its store query has been
\* executed with success; after a store that failed the node is still
\* unevaluated, a later eval executes the store again, and no query of a
\* parent names a result array that was never stored.
C24_CachedOnlyAfterStoreSucceeded ==
    /\ \A n \in 1..Len(afl) :
          Cached(afl[n]) => \E i \in StoreQueries(n) : aflLog[i].ok
    /\ \A i, j \in 1..Len(evals) :
          /\ i < j
          /\ evals[i].node = evals[j].node
          /\ evals[i].store /\ evals[i].raised
          /\ evals[j].store
          => evals[j].queries = 1

\* The failed store is followed by an eval that returns the handle of an
\* array that was never stored
C24_StaleHandle ==
    \E i, j \in 1..Len(evals) :
        /\ i < j
        /\ evals[i].node = evals[j].node
        /\ evals[i].store /\ evals[i].raised /\ evals[i].queries = 1
        /\ evals[j].ret # 0 /\ ~evals[j].raised /\ evals[j].queries = 0
        /\ \A k \in StoreQueries(evals[i].node) : ~aflLog[k].ok

----------------------------------------------------------------------------
(* eval() called by several threads: one statement of afl.py:136-148 at a
   time.  evals[t] is the call of thread t and pc the statement it is at. *)

AtEval(t, pc) == t \in 1..Len(evals) /\ evals[t].pc = pc

\* A thread calls node.eval()
EvalBegin(n) ==
    /\ n \in 1..Len(afl)
    /\ Len(evals) < MaxEvals
    /\ evals' = Append(evals, [node |-> n, out |-> 0, store |-> TRUE,
                               pc |-> "check", ret |-> 0, raised |-> FALSE,
                               queries |-> 0, created |-> 0])
    /\ UNCHANGED <<dbVars, nodeVars, afl, aflLog, arrays, built, dis, codec, axisCall>>

\* if self._result is not None: return self._result
EvalCheck(t) ==
    /\ AtEval(t, "check")
    /\ evals' = [evals EXCEPT ![t] =
           IF Cached(afl[evals[t].node])
           THEN [@ EXCEPT !.pc = "done",
                          !.ret = afl[evals[t].node].result]
           ELSE [@ EXCEPT !.pc = "new_array"]]
    /\ UNCHANGED <<dbVars, nodeVars, afl, aflLog, arrays, built, dis, codec, axisCall>>

\* out = self.interface.new_array()
EvalNewArray(t) ==
    /\ AtEval(t, "new_array")
    /\ arrays' = arrays + 1
    /\ evals' = [evals EXCEPT ![t].out = arrays + 1, ![t].created = 1,
                              ![t].pc = "assign"]
    /\ UNCHANGED <<dbVars, nodeVars, afl, aflLog, built, dis, codec, axisCall>>

\* self._result = out
EvalAssign(t) ==
    /\ AtEval(t, "assign")
    /\ afl' = [afl EXCEPT ![evals[t].node].result = evals[t].out]
    /\ evals' = [evals EXCEPT ![t].pc = "store"]
    /\ UNCHANGED <<dbVars, nodeVars, aflLog, arrays, built, dis, codec, axisCall>>

\* self.interface._execute_query('store(%s, %s)' % (self.query, out.name))
EvalStore(t, ok) ==
    /\ AtEval(t, "store")
    /\ aflLog' = Append(aflLog,
           [node |-> evals[t].node, store |-> TRUE, ok |-> ok,
            query |-> T_store_open \o AflQuery(afl, evals[t].node)
                      \o <<",", " ">> \o ArrayName(evals[t].out) \o <<")">>])
    /\ evals' = [evals EXCEPT ![t] =
           IF ok THEN [@ EXCEPT !.pc = "return", !.queries = 1]
           ELSE [@ EXCEPT !.pc = "done", !.queries = 1, !.raised = TRUE]]
    /\ UNCHANGED <<dbVars, nodeVars, afl, arrays, built, dis, codec, axisCall>>

\* return self._result
EvalReturn(t) ==
    /\ AtEval(t, "return")
    /\ evals' = [evals EXCEPT ![t].pc = "done",
                              ![t].ret = afl[evals[t].node].result]
    /\ UNCHANGED <<dbVars, nodeVars, afl, aflLog, arrays, built, dis, codec, axisCall>>

NextRace ==
    \/ \E operator \in {o \in AflOperators : Len(o.signature) = 2} :
          \E args \in AflArgs(2) : AflNew(operator, args)
    \/ \E n \in 1..MaxAfl : EvalBegin(n)
    \/ \E t \in 1..MaxEvals :
          \/ EvalCheck(t)
          \/ EvalNewArray(t)
          \/ EvalAssign(t)
          \/ \E ok \in BOOLEAN : EvalStore(t, ok)
          \/ EvalReturn(t)

SpecRace == Init /\ [][NextRace]_vars

\* C25: when eval() is called on one node by several threads, the node's
\* store query is executed at most once, at most one array is created for
\* it, and the callers that get a handle get the same one, the node's
\* cached result.
C25_ConcurrentEvalStoresOnce ==
    \A n \in 1..Len(afl) :
        /\ Cardinality(StoreQueries(n)) <= 1
        /\ Cardinality(ArraysCreated(n)) <= 1
        /\ \A i \in 1..Len(evals) :
              evals[i].node = n /\ evals[i].pc = "done" /\ ~evals[i].raised
              => evals[i].ret = afl[n].result

\* Two threads have both passed the test of _result, stored twice into two
\* arrays and returned
C25_TwoStores ==
    \E i, j \in 1..Len(evals) :
        /\ i # j
        /\ evals[i].node = evals[j].node
        /\ evals[i].pc = "done" /\ evals[j].pc = "done"
        /\ ~evals[i].raised /\ ~evals[j].raised
        /\ evals[i].out # evals[j].out
        /\ Cardinality(StoreQueries(evals[i].node)) = 2

----------------------------------------------------------------------------
(* What disambiguate leaves alone *)

\* The array operands for which the visit picks a new name: one of their
\* names is already taken when it is reached
RECURSIVE RenamedOperands(_, _, _)
RenamedOperands(arrs, k, taken) ==
    IF k > Len(arrs) THEN {}
    ELSE IF ~arrs[k].isArray THEN RenamedOperands(arrs, k + 1, taken)
    ELSE LET names == arrs[k].atts \o arrs[k].dims
             new == Assigned(names, taken, <<>>)
         IN (IF new # names THEN {k} ELSE {})
            \cup RenamedOperands(arrs, k + 1, taken \cup SeqToSet(new))

\* C26: disambiguate returns as many operands as it was given, in the
\* same order; an operand that is not an array is returned as it is; an
\* array is wrapped in cast exactly when one of its names had to be
\* renamed and is otherwise returned as it is; with no collision at all
\* the input is returned.
C26_OnlyRenamedOperandsAreCast ==
    dis # NoDis =>
        LET names == AllNames(dis.input) IN
        /\ Len(dis.result) = Len(dis.input)
        /\ \A k \in 1..Len(dis.input) :
              LET a == dis.input[k]
                  r == dis.result[k] IN
              /\ ~a.isArray => r = a
              /\ a.isArray =>
                    /\ r.isArray
                    /\ r.cast <=> k \in RenamedOperands(dis.input, 1, {})
                    /\ r.cast <=> (r.atts # a.atts \/ r.dims # a.dims)
                    /\ ~r.cast => r = a
        /\ Cardinality(SeqToSet(names)) = Len(names) => dis.result = dis.input

\* A call with a collision: one array is wrapped, one array and one other
\* operand are returned as they are
C26_Witness ==
    /\ dis # NoDis
    /\ Len(dis.input) = 3
    /\ \E i, j, k \in 1..3 :
          /\ ~dis.input[i].isArray /\ dis.result[i] = dis.input[i]
          /\ dis.input[j].isArray /\ dis.result[j] = dis.input[j]
          /\ dis.input[k].isArray /\ dis.result[k].cast

----------------------------------------------------------------------------
(* schema_utils.change_axis_schema *)

\* An argument that was passed; NoArg and NoName stand for None
Arg(v) == [given |-> TRUE, val |-> v]

\* SciDBDataShape(shape, dtype, dim_names=..., chunk_size=...,
\* chunk_overlap=...): the data shape that holds what it was given
SciDBDataShape(shape, dtype, dim_names, chunk_size, chunk_overlap) ==
    [dim_names |-> dim_names, shape |-> shape, chunk_size |-> chunk_size,
     chunk_overlap |-> chunk_overlap, dtype |-> dtype]

\* list[axis] = v for a Python list kept as a sequence: axis counts from 0,
\* a negative axis from the end
Index(list, axis) == IF axis < 0 THEN Len(list) + axis + 1 ELSE axis + 1
InRange(list, axis) == Index(list, axis) \in 1..Len(list)
SetItem(list, axis, v) == [list EXCEPT ![Index(list, axis)] = v]

NewStop_AsGiven(stop) == stop

\* stops[axis] = stop + 1
NewStop(stop) == stop + 1

\* The call's outcome: the exception raised, the new shape, and the template
\* as the call leaves it.  names, stops, chunks and overlaps are lists
\* copied from the template, so the item assignments do not reach it.
ChangeAxisSchema(datashape, axis, start, stop, chunk, overlap, name) ==
    LET out(raised, shape) ==
            [raised |-> raised, shape |-> shape, after |-> datashape]
        names == datashape.dim_names
        stops == datashape.shape
        chunks == datashape.chunk_size
        overlaps == datashape.chunk_overlap
    IN IF start.given THEN out("NotImplementedError", NoShape)
       ELSE IF (stop.given \/ chunk.given \/ overlap.given \/ name.given)
               /\ ~InRange(names, axis)
       THEN out("IndexError", NoShape)
       ELSE out("none",
                SciDBDataShape(
                    IF stop.given THEN SetItem(stops, axis, NewStop(stop.val))
                    ELSE stops,
                    datashape.dtype,
                    IF name.given THEN SetItem(names, axis, name.val)
                    ELSE names,
                    IF chunk.given THEN SetItem(chunks, axis, chunk.val)
                    ELSE chunks,
                    IF overlap.given THEN SetItem(overlaps, axis, overlap.val)
                    ELSE overlaps))

AxisNames == << <<"i">>, <<"j">>, <<"k">>, <<"l">> >>

\* The template shapes: n dimensions that differ in every parameter
Templates ==
    { SciDBDataShape([d \in 1..n |-> d + 1], T_int64,
                     [d \in 1..n |-> AxisNames[d]],
                     [d \in 1..n |-> 100 * d], [d \in 1..n |-> d - 1]) :
        n \in 1..MaxDims }

\* change_axis_schema(datashape, axis, start, stop, chunk, overlap, name)
ChangeAxis(datashape, axis, start, stop, chunk, overlap, name) ==
    /\ axisCall = NoAxisCall
    /\ LET r == ChangeAxisSchema(datashape, axis, start, stop, chunk,
                                 overlap, name) IN
       axisCall' = [op |-> "change", template |-> datashape, axis |-> axis,
                    start |-> start, stop |-> stop, chunk |-> chunk,
                    overlap |-> overlap, name |-> name, raised |-> r.raised,
                    shape |-> r.shape, after |-> r.after]
    /\ UNCHANGED <<dbVars, nodeVars, aflVars, dis, codec>>

NextAxis ==
    \E datashape \in Templates, axis \in (-1)..MaxDims,
       start \in {NoArg, Arg(0)}, stop \in {NoArg, Arg(0), Arg(5)},
       chunk \in {NoArg, Arg(10)}, overlap \in {NoArg, Arg(0), Arg(2)},
       name \in {NoName, Arg(<<"t">>)} :
        ChangeAxis(datashape, axis, start, stop, chunk, overlap, name)

SpecAxis == Init /\ [][NextAxis]_vars

\* C27: change_axis_schema returns a shape with the dimensions of the
\* template in the same number and order; only the selected axis differs,
\* and only in what was passed: the extent is stop + 1, chunk size, overlap
\* and name are the ones given.  The template is left as it was, and a
\* call with start raises NotImplementedError and returns no shape.
C27_OnlySelectedAxisChanges ==
    axisCall.op = "change" =>
        LET c == axisCall
            t == c.template
            r == c.shape
            a == Index(t.dim_names, c.axis)
            pick(arg, old, new) == IF arg.given THEN new ELSE old
        IN /\ c.after = t
           /\ c.start.given =>
                 c.raised = "NotImplementedError" /\ r = NoShape
           /\ ~c.start.given /\ InRange(t.dim_names, c.axis) =>
                 /\ c.raised = "none"
                 /\ r.dtype = t.dtype
                 /\ Len(r.dim_names) = Len(t.dim_names)
                 /\ Len(r.shape) = Len(t.shape)
                 /\ Len(r.chunk_size) = Len(t.chunk_size)
                 /\ Len(r.chunk_overlap) = Len(t.chunk_overlap)
                 /\ \A d \in 1..Len(t.dim_names) :
                       /\ r.dim_names[d] =
                             pick(IF d = a THEN c.name ELSE NoName,
                                  t.dim_names[d], c.name.val)
                       /\ r.shape[d] =
                             pick(IF d = a THEN c.stop ELSE NoArg,
                                  t.shape[d], c.stop.val + 1)
                       /\ r.chunk_size[d] =
                             pick(IF d = a THEN c.chunk ELSE NoArg,
                                  t.chunk_size[d], c.chunk.val)
                       /\ r.chunk_overlap[d] =
                             pick(IF d = a THEN c.overlap ELSE NoArg,
                                  t.chunk_overlap[d], c.overlap.val)

C27_Witness ==
    /\ axisCall.op = "change"
    /\ axisCall.raised = "none"
    /\ Len(axisCall.template.dim_names) = 2
    /\ axisCall.axis = 1
    /\ axisCall.stop = Arg(0) /\ axisCall.name.given
    /\ ~axisCall.chunk.given /\ ~axisCall.overlap.given
    /\ axisCall.shape.shape = <<2, 1>>
    /\ axisCall.shape.dim_names = << <<"i">>, <<"t">> >>
    /\ axisCall.shape.chunk_size = axisCall.template.chunk_size
    /\ axisCall.after = axisCall.template

----------------------------------------------------------------------------
(* The data query of a fetch *)

\* The execute_query requests that download the data of a fetch: those of
\* an iquery call that are not its show(...) request
DataRequests(c) ==
    {i \in 1..Len(log) :
        /\ log[i].call = c
        /\ calls[c].kind = "iquery" /\ calls[c].fetch
        /\ log[i].req.endpoint = "execute_query"
        /\ log[i].req.save # T_tsv}

\* The schema call c starts from: the caller's, or the one show(...) gave
SchemasOf(c) ==
    IF calls[c].schema # NoSchema THEN {calls[c].schema} ELSE ShownSchemas

\* C28: a fetch with atts_only sends the caller's query as it is; without
\* atts_only it sends project(apply(Q, d, d, ...), dimensions, attributes)
\* with the dimensions first, Q being cast(query, schema) exactly when a
\* dimension was renamed because its name collides, and the caller's query
\* otherwise.  The save format and the schema used for decoding are those
\* of the schema with the dimensions added as leading attributes.
C28_DataQueryShape ==
    \A c \in CallIds : \A i \in DataRequests(c) :
        \E s0 \in SchemasOf(c) :
            LET dims == UniqueDims(s0.dims, SeqToSet(s0.atts), <<>>)
                renamed == dims # s0.dims
                Q == IF renamed
                     THEN <<"c", "a", "s", "t", "(">> \o calls[c].query
                          \o <<",", " ">>
                          \o SchemaText([atts |-> s0.atts, dims |-> dims])
                          \o <<")">>
                     ELSE calls[c].query
                pairs == JoinAll([d \in 1..Len(dims) |->
                                     dims[d] \o <<",", " ">> \o dims[d]],
                                 <<",", " ">>)
                cols == JoinAll(dims \o s0.atts, <<",", " ">>)
                layout == IF calls[c].atts_only THEN s0
                          ELSE [atts |-> dims \o s0.atts, dims |-> dims]
            IN /\ log[i].req.query =
                     IF calls[c].atts_only THEN calls[c].query
                     ELSE <<"p", "r", "o", "j", "e", "c", "t", "(",
                            "a", "p", "p", "l", "y", "(">>
                          \o Q \o <<",", " ">> \o pairs \o <<")", ",", " ">>
                          \o cols \o <<")">>
               /\ log[i].req.save = AttsFmt(layout)
               /\ calls[c].sch = layout

\* A fetch of an array whose dimension i collides with an attribute: the
\* query is wrapped in cast and the renamed dimension leads the columns
C28_Witness ==
    \E c \in CallIds : \E i \in DataRequests(c) :
        /\ calls[c].status = "returned"
        /\ ~calls[c].atts_only
        /\ calls[c].schema = [atts |-> << <<"x">>, <<"i">> >>,
                              dims |-> << <<"i">> >>]
        /\ Occurs(T_cast, log[i].req.query)
        /\ calls[c].sch.atts = << <<"i", "_", "1">>, <<"x">>, <<"i">> >>

====
